---- MODULE Spec2Model ----
(***************************************************************************)
(* A model of rooster, the Slack support-operations bot.                   *)
(*                                                                         *)
(* Three parts of the program are modelled, each with its own              *)
(* specification over the shared variables:                                *)
(*   Spec        the `/rooster check` command and the digest builders      *)
(*               (index.ts, openThreadReminder.ts, pylon.ts views)         *)
(*   SpecCache   the identity caches and the batch resolutions             *)
(*               (pylon.ts, slackUtils.ts, openThreadReminder.ts)          *)
(*   SpecWebhook the Pylon webhook handler in its two revisions            *)
(*               (triage.ts, HMAC signature; the shared-secret revision    *)
(*               with placeholder stripping and hydration)                 *)
(***************************************************************************)
EXTENDS Integers, Sequences, FiniteSets, TLC

VARIABLES
    \* ---- helpdesk (Pylon) side and the check command ----
    upstream,     \* ticket id -> [state, first_response_time] as Pylon holds it now
    changes,      \* number of upstream state changes so far
    pc,           \* position of the command handler
    opts,         \* options of the running command
    newRes,       \* result of the getNewIssues / getUnrespondedIssues call
    openRes,      \* result of the getOpenNonNewIssues call
    message,      \* value returned by the digest builder
    result,       \* how the digest builder ended: "none", "value", "true", "false", "threw"
    replies,      \* what the handler sent through respond()
    posted        \* texts posted to #customer-alerts

VARIABLES
    \* ---- identity caches and batch resolutions ----
    cache,        \* kind -> key -> cached value (NoVal: no entry)
    calls,        \* kind -> key -> number of network lookups issued so far
    netCalls,     \* number of network lookups issued so far, over all caches
    answered,     \* kind -> key -> the values successful upstream lookups returned
    flow          \* flow -> the batch resolution it is running

VARIABLES
    \* ---- the Pylon webhook handler ----
    rev,          \* deployed revision of createWebhookHandler: "hmac" or "secret"
    req,          \* authentication inputs of the request
    wpc,          \* position of the handler
    responses,    \* HTTP responses sent, in order
    downstream,   \* downstream calls issued, in order
    body,         \* req.body as the handler read it
    whIssue,      \* the issue extractIssueData returned
    fullIssue,    \* what fetchIssueById returned
    curIssue,     \* the handler's `issue` variable
    context,      \* parts of the text buildTriageContext returned
    triageTs,     \* whether the triage post returned a message ts
    logged,       \* errors logged by the catch block
    rejected      \* the handler's promise rejected

VARIABLES
    \* ---- one call of a view of the ticket source (pylon.ts) ----
    viewCall,     \* the view called and, for getMyIssues, the target email
    viewPc,       \* position of the call
    fetchCount,   \* requests fetchIssues has sent
    fetchResponse,\* the response fetchIssues received
    emailMap,     \* getMyIssues' emailMap: assignee id -> resolved email
    viewResult,   \* the list the view returned
    viewError     \* the error the view's promise rejected with

VARIABLES
    \* ---- one call of the on-call resolver (getAllOncallEngineers) ----
    oncallPc,     \* position of the call: "idle", "waiting", "returned", "threw"
    results,      \* schedule -> what getOncallEngineerForSchedule settled with
    uniqueIds     \* the list getAllOncallEngineers returned

VARIABLES
    \* ---- one formatted ticket line (formatIssue and its FormatOptions) ----
    fmtPc,        \* "start", "resolved" (the options are built), "formatted"
    fmtIssue,     \* the issue being formatted
    lookups,      \* what each single lookup returns for the issue's ids
    options,      \* FormatOptions: channelNames, accountNames, assigneeSlackIds
    line          \* the parts of the formatted line

VARIABLES
    \* ---- the flags of the running check command ----
    args          \* which of --new, --open, --channel, --remind command.text holds

VARIABLES
    \* ---- the day count of a check command and the query window ----
    cmdArgs,      \* args.slice(1): the tokens after the subcommand
    dayLength,    \* hours in the server's local day (23 and 25 at a DST change)
    now,          \* the current instant, in hours since local midnight
    winPc,        \* "start", "parsed", "queried"
    days,         \* the day count the command passes on
    window        \* start_time and end_time, in hours since local midnight

VARIABLES
    \* ---- the scheduled digest runs (cron.schedule handlers) ----
    cronPc,       \* "idle", or the await the running handler is at
    cronHandler,  \* the handler that runs: "morning" or "endOfDay"
    runs,         \* scheduled runs started so far
    thrown,       \* every error raised inside a run: <<handler, step>>
    cronLog,      \* what the handlers' catch blocks passed to console.error
    crashed,      \* a handler's promise rejected (unhandled rejection)
    cronPosted,   \* digests posted by scheduled runs
    served        \* /rooster status commands answered

VARIABLES
    \* ---- the awaits of the check subcommand, its replies included ----
    rPc,          \* "idle", "respond", "users", "build", "send", "done"
    rFlags,       \* --mine and sendToChannel of the running command
    rReply,       \* the reply the handler is awaiting respond() for
    rReplies,     \* the replies the user received in this run
    rFailed,      \* an await of this run rejected
    rEscaped,     \* the handler's promise rejected
    rPosted,      \* messages this run posted to #customer-alerts
    rCmds         \* check commands received so far

VARIABLES
    \* ---- two flows resolving through the same cache ----
    issued,       \* per flow and id: lookups issued since the flow's batch started
    lastOk        \* per cache and id: the value of the last successful lookup

VARIABLES
    \* ---- the normalisation of one webhook payload ----
    plRev,        \* the revision of extractIssueData
    plPayload,    \* req.body
    plPc,         \* "start", "extracted", "built"
    plIssue,      \* what extractIssueData returned
    plContext     \* the parts of buildTriageContext(issue)

VARIABLES
    \* ---- check with --mine among the other flags ----
    mPc,          \* "idle", "users", "mine", "build", "send", "done"
    mFlags,       \* --mine, --channel, --remind, --new, --open of the command
    mEmail,       \* what users.info gave: "none" (not asked), "email", "noEmail"
    mReplies,     \* the private replies of the command
    mPosted,      \* messages posted to #customer-alerts
    mOncall,      \* on-call lookups made for tagging
    mFetches      \* fetches of the ticket list

VARIABLES
    \* ---- thread links: buildSlackThreadUrl and parseThreadUrl ----
    lkPc,         \* "start", "built", "pasted", "roundTrip", "parsed"
    lkChannel,    \* the channel id given to buildSlackThreadUrl
    lkTs,         \* the message timestamp given to buildSlackThreadUrl
    lkUrl,        \* the URL built or pasted
    lkParsed      \* what parseThreadUrl returned

VARIABLES
    \* ---- getCheckMessage and sendCheckMessage on the same inputs ----
    sdIn,         \* options, fetched lists, resolved names, tagOncall, on-call ids
    sdDone,       \* which of "get" and "send" have run
    sdGot,        \* what getCheckMessage returned (string | null)
    sdSent        \* the text sendCheckMessage posted (Null: it returned false)

digestVars == <<upstream, changes, pc, opts, newRes, openRes, message, result, replies, posted>>

cacheVars == <<cache, calls, netCalls, answered, flow>>

webhookVars == <<rev, req, wpc, responses, downstream, body, whIssue, fullIssue, curIssue,
                 context, triageTs, logged, rejected>>

viewVars == <<viewCall, viewPc, fetchCount, fetchResponse, emailMap, viewResult, viewError>>

oncallVars == <<oncallPc, results, uniqueIds>>

formatVars == <<fmtPc, fmtIssue, lookups, options, line>>

commandVars == <<args>>

windowVars == <<cmdArgs, dayLength, now, winPc, days, window>>

cronVars == <<cronPc, cronHandler, runs, thrown, cronLog, crashed, cronPosted, served>>

replyVars == <<rPc, rFlags, rReply, rReplies, rFailed, rEscaped, rPosted, rCmds>>

raceVars == <<issued, lastOk>>

payloadVars == <<plRev, plPayload, plPc, plIssue, plContext>>

mineVars == <<mPc, mFlags, mEmail, mReplies, mPosted, mOncall, mFetches>>

linkVars == <<lkPc, lkChannel, lkTs, lkUrl, lkParsed>>

sendVars == <<sdIn, sdDone, sdGot, sdSent>>

vars == <<digestVars, cacheVars, webhookVars, viewVars, oncallVars, formatVars, commandVars,
          windowVars, cronVars,
          replyVars,
          raceVars,
          payloadVars,
          mineVars,
          linkVars,
          sendVars>>

(***************************************************************************)
(* Bounds                                                                  *)
(***************************************************************************)
NumTickets == 2
MaxChanges == 1
NumIds == 2
MaxCalls == 2

Tickets == 1..NumTickets

(***************************************************************************)
(* Tickets                                                                 *)
(***************************************************************************)
\* PylonIssue.state
IssueStates == {"new", "waiting_on_you", "waiting_on_customer"}

\* PylonIssue.first_response_time?: string | null
FirstResponseTimes == {"absent", "null", "t1"}

OPEN_NON_NEW_STATES == {"waiting_on_you"}

Range(s) == {s[i] : i \in DOMAIN s}

PylonIssue == [id : Tickets, state : IssueStates, first_response_time : FirstResponseTimes]

\* the list the helpdesk returns for a window: every ticket, in id order
UpstreamList == [i \in Tickets |-> [id |-> i, state |-> upstream[i].state,
                                    first_response_time |-> upstream[i].first_response_time]]

\* issues.filter((issue) => issue.state === "new")
FilterNew(issues) == SelectSeq(issues, LAMBDA issue : issue.state = "new")

\* a view of every issue that is not new
FilterOpenNonNew_notNew(issues) == SelectSeq(issues, LAMBDA issue : issue.state # "new")

\* issues.filter((issue) => OPEN_NON_NEW_STATES.includes(issue.state))
FilterOpenNonNew(issues) == SelectSeq(issues, LAMBDA issue : issue.state \in OPEN_NON_NEW_STATES)

\* a strict comparison, first_response_time === null
IsNullish_strict(v) == v = "null"

\* first_response_time == null  (loose equality: null or undefined)
IsNullish(v) == v \in {"absent", "null"}

\* getUnrespondedIssues: state === "new" && first_response_time == null
FilterUnresponded(issues) ==
    SelectSeq(FilterNew(issues), LAMBDA issue : IsNullish(issue.first_response_time))

(***************************************************************************)
(* Digest text.  A text is a sequence of tokens; the empty string is <<>>. *)
(***************************************************************************)
Tok(k, label, n, id) == [k |-> k, label |-> label, n |-> n, id |-> id]

\* `*issues from ${timeframe}*\n\n`
CheckHeader == Tok("header", "issues from", 0, 0)

\* `*unresponded threads*\n\nthe following ${n} thread(s) ... have not been responded to:\n\n`
UnrespondedHeader(n) == Tok("header", "unresponded threads", n, 0)

\* the "\n\n" that sections.join("\n\n") puts between two sections
SectionSep == Tok("sep", "", 0, 0)

\* lines numbered from zero
formatIssue_zeroBased(issue, index) == Tok("line", "", index, issue.id)

\* formatIssue(issue, index): `  ${index + 1}.${description}${linksPart}${assigneePart}`
formatIssue(issue, index) == Tok("line", "", index + 1, issue.id)

\* issues.map((issue, index) => formatIssue(issue, index, ...)).join("\n")
IssueList(issues) == [i \in 1..Len(issues) |-> formatIssue(issues[i], i - 1)]

\* `*${label} (${issues.length})*\n${list}`
Section(label, issues) == <<Tok("section", label, Len(issues), 0)>> \o IssueList(issues)

RECURSIVE JoinSections(_)
\* sections.join("\n\n")
JoinSections(sections) ==
    IF sections = <<>> THEN <<>>
    ELSE IF Len(sections) = 1 THEN sections[1]
    ELSE sections[1] \o <<SectionSep>> \o JoinSections(Tail(sections))

\* the sections array both digest builders fill
Sections(showNew, showOpen, newIssues, openIssues) ==
    (IF showNew /\ Len(newIssues) > 0 THEN <<Section("new issues", newIssues)>> ELSE <<>>)
    \o (IF showOpen /\ Len(openIssues) > 0 THEN <<Section("waiting on you", openIssues)>> ELSE <<>>)

\* a value of type string | null
Null == [isNull |-> TRUE, text |-> <<>>]
Str(text) == [isNull |-> FALSE, text |-> text]

\* JavaScript truthiness of a string | null
Truthy(m) == ~m.isNull /\ m.text # <<>>

\* getCheckMessage, after its early return: sections, the second null check, the text
getCheckMessage(showNew, showOpen, newIssues, openIssues) ==
    LET sections == Sections(showNew, showOpen, newIssues, openIssues)
    IN  IF Len(sections) = 0 THEN Null
        ELSE Str(<<CheckHeader>> \o JoinSections(sections))

\* getUnrespondedThreadsMessage, after its early return: the text
getUnrespondedThreadsMessage(unrespondedIssues) ==
    Str(<<UnrespondedHeader(Len(unrespondedIssues))>> \o IssueList(unrespondedIssues))

\* oncallEngineerIds.map((id) => `<@${id}>`).join(" ") + " "   ("" for an empty list)
OncallMention(ids) == [i \in 1..Len(ids) |-> Tok("mention", "", 0, ids[i])]

\* the text sendCheckMessage posts
SendCheckText(oncallIds, showNew, showOpen, newIssues, openIssues) ==
    OncallMention(oncallIds) \o <<CheckHeader>>
        \o JoinSections(Sections(showNew, showOpen, newIssues, openIssues))

\* the text sendUnrespondedThreadsReminder posts (the mention follows the title)
SendUnrespondedText(oncallIds, unrespondedIssues) ==
    <<Tok("header", "unresponded threads", 0, 0)>> \o OncallMention(oncallIds)
        \o <<UnrespondedHeader(Len(unrespondedIssues))>> \o IssueList(unrespondedIssues)

(***************************************************************************)
(* The /rooster check command (index.ts) and the digest builders           *)
(***************************************************************************)
\* a pending or settled call of a view: raw is what fetchIssues returned to it
Res(st, raw, issues) == [st |-> st, raw |-> raw, issues |-> issues]
NoRes == Res("none", <<>>, <<>>)

Opts(op, showNew, showOpen, sendToChannel, tagOncall) ==
    [op |-> op, showNew |-> showNew, showOpen |-> showOpen,
     sendToChannel |-> sendToChannel, tagOncall |-> tagOncall]
NoOpts == Opts("none", FALSE, FALSE, FALSE, FALSE)

Reply(kind, text) == [kind |-> kind, text |-> text]

\* what an on-call lookup may return: a list of unique chat user ids
OncallLists == {<<>>, <<1>>, <<1, 2>>}

\* the catch block of the subcommand: respond("error running the check")
CatchError ==
    /\ result' = "threw"
    /\ replies' = Append(replies, Reply("error", <<>>))
    /\ pc' = "done"

NoIssuesReply == IF opts.op = "check" THEN Reply("noIssuesFound", <<>>)
                 ELSE Reply("noUnrespondedFound", <<>>)

\* a builder without the early return
EarlyReturn_never(newIssues, openIssues) == FALSE

\* if (newIssues.length === 0 && openIssues.length === 0) return null / false
EarlyReturn(newIssues, openIssues) == Len(newIssues) = 0 /\ Len(openIssues) = 0

\* the text the get* builder of the running command returns
BuilderMessage(newIssues, openIssues) ==
    IF opts.op = "check"
    THEN getCheckMessage(opts.showNew, opts.showOpen, newIssues, openIssues)
    ELSE getUnrespondedThreadsMessage(newIssues)

\* the text the send* builder of the running command posts
SenderText(oncallIds, newIssues, openIssues) ==
    IF opts.op = "check"
    THEN SendCheckText(oncallIds, opts.showNew, opts.showOpen, newIssues, openIssues)
    ELSE SendUnrespondedText(oncallIds, newIssues)

\* the builder's continuation once every fetch it awaits has resolved
AfterFetch(newIssues, openIssues) ==
    IF EarlyReturn(newIssues, openIssues)
    THEN /\ result' = (IF opts.sendToChannel THEN "false" ELSE "value")
         /\ message' = Null
         /\ replies' = Append(replies, NoIssuesReply)
         /\ pc' = "done"
    ELSE /\ pc' = "resolve"
         /\ UNCHANGED <<result, message, replies>>

\* both views fetched whatever the options say
StartFetch_both(o) ==
    /\ newRes' = Res("pending", <<>>, <<>>)
    /\ openRes' = (IF o.op = "check" THEN Res("pending", <<>>, <<>>) ELSE Res("ok", <<>>, <<>>))

\* the fetches a builder starts: Promise.all([showNew ? getNewIssues(days) : [], ...])
StartFetch(o) ==
    /\ newRes' = (IF o.op = "check" /\ ~o.showNew THEN Res("ok", <<>>, <<>>) ELSE Res("pending", <<>>, <<>>))
    /\ openRes' = (IF o.op = "check" /\ o.showOpen THEN Res("pending", <<>>, <<>>) ELSE Res("ok", <<>>, <<>>))

\* pylon moves a ticket to another state while a fetch of the running command is
\* still outstanding (a change at any other time is one more initial ticket list:
\* nothing reads the tickets outside a fetch)
UpstreamChange(t, s) ==
    /\ changes < MaxChanges
    /\ pc = "fetch"
    /\ s # upstream[t].state
    /\ upstream' = [upstream EXCEPT ![t].state = s]
    /\ changes' = changes + 1
    /\ UNCHANGED <<pc, opts, newRes, openRes, message, result, replies, posted>>

\* the command with --remind not implying --channel
CheckCommand_remindAlone(filterNew, filterOpen, channel, remind) ==
    /\ pc = "idle"
    /\ LET showNew == filterNew \/ (~filterNew /\ ~filterOpen)
           showOpen == filterOpen \/ (~filterNew /\ ~filterOpen)
       IN  /\ opts' = Opts("check", showNew, showOpen, channel, remind)
           /\ replies' = Append(replies, Reply("checking", <<>>))
           /\ IF channel
              THEN pc' = "channel" /\ UNCHANGED <<newRes, openRes>>
              ELSE /\ pc' = "fetch"
                   /\ newRes' = (IF showNew THEN Res("pending", <<>>, <<>>) ELSE Res("ok", <<>>, <<>>))
                   /\ openRes' = (IF showOpen THEN Res("pending", <<>>, <<>>) ELSE Res("ok", <<>>, <<>>))
    /\ UNCHANGED <<upstream, changes, message, result, posted>>

\* app.command("/rooster") case "check" (index.ts 130-193), without --mine
CheckCommand(filterNew, filterOpen, channel, remind) ==
    /\ pc = "idle"
    /\ LET tagOncall == remind
           sendToChannel == tagOncall \/ channel
           showNew == filterNew \/ (~filterNew /\ ~filterOpen)
           showOpen == filterOpen \/ (~filterNew /\ ~filterOpen)
       IN  /\ opts' = Opts("check", showNew, showOpen, sendToChannel, tagOncall)
           /\ replies' = Append(replies, Reply("checking", <<>>))
           /\ IF sendToChannel
              THEN pc' = "channel" /\ UNCHANGED <<newRes, openRes>>
              ELSE pc' = "fetch" /\ StartFetch(opts')
    /\ UNCHANGED <<upstream, changes, message, result, posted>>

\* the earlier revision of case "check" (index.ts 38-67): unresponded threads
UnrespondedCommand(channel, remind) ==
    /\ pc = "idle"
    /\ LET tagOncall == remind
           sendToChannel == tagOncall \/ channel
       IN  /\ opts' = Opts("unresponded", FALSE, FALSE, sendToChannel, tagOncall)
           /\ replies' = Append(replies, Reply("checking", <<>>))
           /\ IF sendToChannel
              THEN pc' = "channel" /\ UNCHANGED <<newRes, openRes>>
              ELSE pc' = "fetch" /\ StartFetch(opts')
    /\ UNCHANGED <<upstream, changes, message, result, posted>>

\* getCustomerAlertsChannelId resolves or throws (send* builders only)
ChannelLookupDone(found) ==
    /\ pc = "channel"
    /\ IF found
       THEN /\ pc' = "fetch"
            /\ StartFetch(opts)
            /\ UNCHANGED <<result, replies>>
       ELSE /\ CatchError
            /\ UNCHANGED <<newRes, openRes>>
    /\ UNCHANGED <<upstream, changes, opts, message, posted>>

\* what fetchIssues returns for a response: the data list, or [] when data is absent
FetchedList(outcome) == IF outcome = "ok" THEN UpstreamList ELSE <<>>

\* the fetch of getNewIssues (or getUnrespondedIssues) completes
FetchNewDone(outcome) ==
    /\ pc = "fetch"
    /\ newRes.st = "pending"
    /\ IF outcome = "err"
       THEN /\ newRes' = Res("err", <<>>, <<>>)
            /\ CatchError
            /\ UNCHANGED message
       ELSE LET raw == FetchedList(outcome)
                issues == IF opts.op = "check" THEN FilterNew(raw) ELSE FilterUnresponded(raw)
            IN  /\ newRes' = Res("ok", raw, issues)
                /\ IF openRes.st = "ok"
                   THEN AfterFetch(issues, openRes.issues)
                   ELSE UNCHANGED <<pc, result, message, replies>>
    /\ UNCHANGED <<upstream, changes, opts, openRes, posted>>

\* the fetch of getOpenNonNewIssues completes
FetchOpenDone(outcome) ==
    /\ pc = "fetch"
    /\ openRes.st = "pending"
    /\ IF outcome = "err"
       THEN /\ openRes' = Res("err", <<>>, <<>>)
            /\ CatchError
            /\ UNCHANGED message
       ELSE LET raw == FetchedList(outcome)
                issues == FilterOpenNonNew(raw)
            IN  /\ openRes' = Res("ok", raw, issues)
                /\ IF newRes.st = "ok"
                   THEN AfterFetch(newRes.issues, issues)
                   ELSE UNCHANGED <<pc, result, message, replies>>
    /\ UNCHANGED <<upstream, changes, opts, newRes, posted>>

\* the three name resolutions have been joined; the builder formats the digest
ResolveDone ==
    /\ pc = "resolve"
    /\ IF ~opts.sendToChannel
       THEN LET m == BuilderMessage(newRes.issues, openRes.issues)
            IN  /\ message' = m
                /\ result' = "value"
                /\ replies' = Append(replies, IF Truthy(m) THEN Reply("digest", m.text)
                                              ELSE NoIssuesReply)
                /\ pc' = "done"
       ELSE IF opts.tagOncall
       THEN /\ pc' = "oncall"
            /\ UNCHANGED <<message, result, replies>>
       ELSE /\ message' = Str(SenderText(<<>>, newRes.issues, openRes.issues))
            /\ pc' = "post"
            /\ UNCHANGED <<result, replies>>
    /\ UNCHANGED <<upstream, changes, opts, newRes, openRes, posted>>

\* getAllOncallEngineers resolves with a list or throws
OncallDone(ok, ids) ==
    /\ pc = "oncall"
    /\ IF ok
       THEN /\ message' = Str(SenderText(ids, newRes.issues, openRes.issues))
            /\ pc' = "post"
            /\ UNCHANGED <<result, replies>>
       ELSE /\ CatchError
            /\ UNCHANGED message
    /\ UNCHANGED <<upstream, changes, opts, newRes, openRes, posted>>

\* a post that reaches the channel although chat.postMessage throws
PostDone_postedOnThrow(ok) ==
    /\ pc = "post"
    /\ posted' = Append(posted, message.text)
    /\ IF ok
       THEN /\ result' = "true"
            /\ pc' = "done"
            /\ UNCHANGED replies
       ELSE CatchError
    /\ UNCHANGED <<upstream, changes, opts, newRes, openRes, message>>

\* chat.postMessage to #customer-alerts resolves or throws
PostDone(ok) ==
    /\ pc = "post"
    /\ IF ok
       THEN /\ posted' = Append(posted, message.text)
            /\ result' = "true"
            /\ pc' = "done"
            /\ UNCHANGED replies
       ELSE /\ CatchError
            /\ UNCHANGED posted
    /\ UNCHANGED <<upstream, changes, opts, newRes, openRes, message>>

FetchOutcomes == {"ok", "nodata", "err"}

DigestInit ==
    /\ upstream \in [Tickets -> [state : IssueStates, first_response_time : FirstResponseTimes]]
    /\ changes = 0
    /\ pc = "idle"
    /\ opts = NoOpts
    /\ newRes = NoRes
    /\ openRes = NoRes
    /\ message = Null
    /\ result = "none"
    /\ replies = <<>>
    /\ posted = <<>>

DigestNext ==
    \/ \E t \in Tickets, s \in IssueStates : UpstreamChange(t, s)
    \/ \E filterNew, filterOpen, channel, remind \in BOOLEAN :
           CheckCommand(filterNew, filterOpen, channel, remind)
    \/ \E channel, remind \in BOOLEAN : UnrespondedCommand(channel, remind)
    \/ \E found \in BOOLEAN : ChannelLookupDone(found)
    \/ \E outcome \in FetchOutcomes : FetchNewDone(outcome)
    \/ \E outcome \in FetchOutcomes : FetchOpenDone(outcome)
    \/ ResolveDone
    \/ \E ok \in BOOLEAN, ids \in OncallLists : OncallDone(ok, ids)
    \/ \E ok \in BOOLEAN : PostDone(ok)

DigestIdle ==
    /\ upstream = [t \in Tickets |-> [state |-> "new", first_response_time |-> "absent"]]
    /\ changes = 0
    /\ pc = "idle"
    /\ opts = NoOpts
    /\ newRes = NoRes
    /\ openRes = NoRes
    /\ message = Null
    /\ result = "none"
    /\ replies = <<>>
    /\ posted = <<>>

(***************************************************************************)
(* Identity caches (pylon.ts, slackUtils.ts, openThreadReminder.ts)        *)
(***************************************************************************)
\* opaque ids of accounts, helpdesk users, chat users and channels
Ids == 1..NumIds

\* what upstream returns for an id: a name, an email or a chat user id
Names == {10 + i : i \in Ids}

\* no entry in a Map, or a null / undefined result
NoVal == 0

AllKeys == Ids \cup Names
AllVals == {NoVal} \cup Ids \cup Names

\* accountNameCache, pylonUserEmailCache, userNameCache, slackUserIdCache, channelNameCache
Kinds == {"account", "pylonUser", "slackUser", "slackEmail", "channel"}

\* responses of a single lookup
Outcomes(kind) ==
    IF kind \in {"account", "pylonUser"} THEN {"ok", "non2xx", "nofield", "throw"}
    ELSE {"ok", "nofield", "throw"}

\* batch resolutions: getAccountNamesForIssues, getAssigneeEmailsForIssues,
\* getChannelNamesForIssues, getAssigneeSlackIdsForIssues, resolveUserMentions
Ops == {"accounts", "emails", "channels", "slackIds", "mentions"}

\* the cache a batch resolution consults at a hop
KindOf(op, hop) ==
    CASE op = "accounts" -> "account"
      [] op = "emails" -> "pylonUser"
      [] op = "channels" -> "channel"
      [] op = "mentions" -> "slackUser"
      [] op = "slackIds" -> IF hop = 1 THEN "pylonUser" ELSE "slackEmail"

\* a lookup that never consults its cache
CacheHas_never(kind, k) == FALSE

\* cache.has(key)
CacheHas(kind, k) == cache[kind][k] # NoVal

\* a lookup whose failure clears the entry
CacheWrite_eraseOnFailure(kind, k, outcome, v) ==
    IF outcome = "ok" THEN v
    ELSE IF kind = "slackUser" /\ outcome = "nofield" THEN k
    ELSE NoVal

\* what the lookup writes into its cache when the response arrives
CacheWrite(kind, k, outcome, v) ==
    IF outcome = "ok" THEN v
    ELSE IF kind = "slackUser" /\ outcome = "nofield" THEN k   \* real_name || name || userId
    ELSE cache[kind][k]

\* the lookup function wraps its request in try / catch
LookupCatches(kind) == TRUE

\* a lookup that falls back to the raw id whenever the response is unusable
fetchResult_rawId(kind, k, outcome, v) == IF outcome = "ok" THEN v ELSE k

\* what the lookup function returns (NoVal: null or undefined)
fetchResult(kind, k, outcome, v) ==
    IF outcome = "ok" THEN v
    ELSE IF kind = "slackUser" THEN k     \* resolveUserName falls back to the user id
    ELSE NoVal

EmptyMap == [i \in Ids |-> NoVal]
NoOut == [i \in Ids |-> <<"none", "none">>]

IdleFlow == [op |-> "none", hop |-> 0, ids |-> {}, key |-> EmptyMap, inflight |-> {},
             map |-> EmptyMap, emails |-> EmptyMap, out |-> NoOut, phase |-> "idle"]

\* a hop starts: every item consults the cache, every miss issues its request
HopStart(fl, op, hop, items, key) ==
    LET kind == KindOf(op, hop)
        hits == {i \in items : CacheHas(kind, key[i])}
        miss == items \ hits
    IN  [fl EXCEPT !.op = op, !.hop = hop, !.key = key, !.inflight = miss,
                   !.map = [i \in Ids |-> IF i \in hits THEN cache[kind][key[i]] ELSE NoVal],
                   !.out = [i \in Ids |-> IF i \in hits THEN [fl.out[i] EXCEPT ![hop] = "hit"]
                                          ELSE fl.out[i]],
                   !.phase = "waiting"]

\* the items of a hop that miss the cache: each issues one request
Misses(op, hop, items, key) == {i \in items : ~CacheHas(KindOf(op, hop), key[i])}

\* the per-key request counters after a hop start
HopCalls(op, hop, items, key) ==
    LET kd == KindOf(op, hop)
        miss == Misses(op, hop, items, key)
    IN  [calls EXCEPT ![kd] = [k \in AllKeys |-> @[k] + Cardinality({i \in miss : key[i] = k})]]

\* getAssigneeSlackIdsForIssues, second hop: one lookup by email per resolved assignee
Hop2Start(fl) ==
    HopStart([fl EXCEPT !.emails = fl.map], "slackIds", 2,
             {a \in fl.ids : fl.map[a] # NoVal}, fl.map)

\* Promise.all has resolved: the batch returns its map, or the chain starts its second hop
Settle(fl) ==
    IF fl.phase = "threw" \/ fl.inflight # {} THEN fl
    ELSE IF fl.op = "slackIds" /\ fl.hop = 1 THEN
        LET fl2 == Hop2Start(fl)
        IN  IF fl2.inflight = {} THEN [fl2 EXCEPT !.phase = "returned"] ELSE fl2
    ELSE [fl EXCEPT !.phase = "returned"]

\* the items of the second hop that fl starts when it settles
SettleItems(fl) ==
    IF fl.phase # "threw" /\ fl.inflight = {} /\ fl.op = "slackIds" /\ fl.hop = 1
    THEN {a \in fl.ids : fl.map[a] # NoVal}
    ELSE {}

\* a flow calls one of the batch resolutions for the ids of its issues
StartBatch(f, op, ids) ==
    /\ flow[f].phase = "idle"
    /\ LET key == [i \in Ids |-> i]
           fl1 == HopStart([IdleFlow EXCEPT !.ids = ids], op, 1, ids, key)
           c1 == HopCalls(op, 1, ids, key)
           items2 == SettleItems(fl1)
       IN  /\ flow' = [flow EXCEPT ![f] = Settle(fl1)]
           /\ calls' = (IF fl1.inflight = {} THEN HopCalls(op, 2, items2, fl1.map) ELSE c1)
           /\ netCalls' = netCalls + Cardinality(fl1.inflight)
                              + Cardinality(Misses(op, 2, items2, fl1.map))
    /\ netCalls' <= MaxCalls
    /\ UNCHANGED <<cache, answered>>

\* the response of one lookup arrives; the lookup function runs to its return
Respond(f, i, outcome, v) ==
    /\ flow[f].phase = "waiting"
    /\ i \in flow[f].inflight
    /\ LET fl == flow[f]
           kind == KindOf(fl.op, fl.hop)
           k == fl.key[i]
           fl1 == [fl EXCEPT !.inflight = @ \ {i},
                             !.map[i] = fetchResult(kind, k, outcome, v),
                             !.out[i][fl.hop] = outcome,
                             !.phase = IF outcome = "throw" /\ ~LookupCatches(kind)
                                       THEN "threw" ELSE @]
       IN  /\ outcome \in Outcomes(kind)
           /\ cache' = [cache EXCEPT ![kind][k] = CacheWrite(kind, k, outcome, v)]
           /\ answered' = [answered EXCEPT ![kind][k] = IF outcome = "ok" THEN @ \cup {v} ELSE @]
           /\ flow' = [flow EXCEPT ![f] = Settle(fl1)]
           /\ calls' = HopCalls(fl.op, 2, SettleItems(fl1), fl1.map)
           /\ netCalls' = netCalls + Cardinality(Misses(fl.op, 2, SettleItems(fl1), fl1.map))
    /\ netCalls' <= MaxCalls

\* the caller has taken the returned map (or the error); the flow may resolve again
Finish(f) ==
    /\ flow[f].phase \in {"returned", "threw"}
    /\ flow' = [flow EXCEPT ![f] = IdleFlow]
    /\ UNCHANGED <<cache, calls, netCalls, answered>>

CacheInit(F) ==
    /\ cache = [kd \in Kinds |-> [k \in AllKeys |-> NoVal]]
    /\ calls = [kd \in Kinds |-> [k \in AllKeys |-> 0]]
    /\ netCalls = 0
    /\ answered = [kd \in Kinds |-> [k \in AllKeys |-> {}]]
    /\ flow = [f \in F |-> IdleFlow]

CacheNext ==
    \/ \E f \in DOMAIN flow, op \in Ops, ids \in SUBSET Ids : StartBatch(f, op, ids)
    \/ \E f \in DOMAIN flow, i \in Ids, outcome \in {"ok", "non2xx", "nofield", "throw"}, v \in Names :
           Respond(f, i, outcome, v)
    \/ \E f \in DOMAIN flow : Finish(f)

(***************************************************************************)
(* JSON values of the webhook payload.  A string is a sequence of          *)
(* characters; an object is a function from its keys to values.            *)
(***************************************************************************)
JStr(s) == [t |-> "str", s |-> s, o |-> <<>>]
JNull == [t |-> "null", s |-> <<>>, o |-> <<>>]
JUndef == [t |-> "undef", s |-> <<>>, o |-> <<>>]
JObj(o) == [t |-> "obj", s |-> <<>>, o |-> o]

\* value.key (undefined when value is no object or lacks the key)
Prop(v, k) == IF v.t = "obj" /\ k \in DOMAIN v.o THEN v.o[k] ELSE JUndef

\* JavaScript truthiness
JsTruthy(v) == (v.t = "str" /\ v.s # <<>>) \/ v.t = "obj"

\* value == null
JsNullish(v) == v.t \in {"null", "undef"}

\* value && typeof value === "object" && !Array.isArray(value)
IsPlainObject(v) == v.t = "obj"

\* /\{\{.*\}\}/.test(s): "{{", then any characters but line breaks, then "}}"
RegexPlaceholder(s) ==
    \E i \in 1..(Len(s) - 1), j \in 1..(Len(s) - 1) :
        /\ s[i] = "{" /\ s[i + 1] = "{"
        /\ j >= i + 2
        /\ s[j] = "}" /\ s[j + 1] = "}"
        /\ \A m \in (i + 2)..(j - 1) : s[m] # "\n"

\* isTemplatePlaceholder(value)
isTemplatePlaceholder(v) == v.t = "str" /\ RegexPlaceholder(v.s)

\* a strip that looks at the top-level fields only
stripPlaceholders_shallow(o) == [k \in {x \in DOMAIN o : ~isTemplatePlaceholder(o[x])} |-> o[k]]

RECURSIVE stripPlaceholders(_)
\* stripPlaceholders(obj), on the key -> value function of obj
stripPlaceholders(o) ==
    LET nested(k) == stripPlaceholders(o[k].o)
        kept == {k \in DOMAIN o :
                    /\ ~isTemplatePlaceholder(o[k])
                    /\ IsPlainObject(o[k]) => DOMAIN nested(k) # {}}
    IN  [k \in kept |-> IF IsPlainObject(o[k]) THEN JObj(nested(k)) ELSE o[k]]

\* the issue key tried before the data key
PickIssue_issueFirst(payload) ==
    IF JsTruthy(Prop(payload, "issue")) /\ Prop(payload, "issue").t = "obj"
    THEN Prop(payload, "issue")
    ELSE IF JsTruthy(Prop(payload, "data")) /\ Prop(payload, "data").t = "obj"
    THEN Prop(payload, "data")
    ELSE payload

\* the object extractIssueData picks: payload.data, else payload.issue, else payload
PickIssue(payload) ==
    IF JsTruthy(Prop(payload, "data")) /\ Prop(payload, "data").t = "obj"
    THEN Prop(payload, "data")
    ELSE IF JsTruthy(Prop(payload, "issue")) /\ Prop(payload, "issue").t = "obj"
    THEN Prop(payload, "issue")
    ELSE payload

\* extractIssueData(payload) of the given revision
extractIssueData(r, payload) ==
    IF r = "secret" THEN JObj(stripPlaceholders(PickIssue(payload).o))
    ELSE PickIssue(payload)

RECURSIVE RemoveFirstDot(_)
\* ts.replace(".", "")
RemoveFirstDot(s) ==
    IF s = <<>> THEN <<>>
    ELSE IF Head(s) = "." THEN Tail(s)
    ELSE <<Head(s)>> \o RemoveFirstDot(Tail(s))

\* a string literal as the sequence of its characters
UrlHost ==
    <<"h", "t", "t", "p", "s", ":", "/", "/", "b", "u", "i", "l", "d", "w", "i", "t", "h", "f", "e", "r", "n", ".", "s", "l", "a", "c", "k", ".", "c", "o", "m">>
ArchivesPath == <<"/", "a", "r", "c", "h", "i", "v", "e", "s", "/">>

\* buildSlackThreadUrl / buildThreadUrl:
\* `https://buildwithfern.slack.com/archives/${channelId}/p${tsForUrl}`
buildSlackThreadUrl(channelId, messageTs) ==
    UrlHost \o ArchivesPath \o channelId \o <<"/", "p">> \o RemoveFirstDot(messageTs)

\* the message timestamp a revision reads from issue.slack
SlackTs(r, slack) ==
    IF r = "hmac" /\ JsTruthy(Prop(slack, "thread_ts")) THEN Prop(slack, "thread_ts")
    ELSE Prop(slack, "message_ts")

Part(label, s) == [label |-> label, s |-> s]

\* buildTriageContext(issue): the parts array
buildTriageContext(r, is) ==
    LET simple(label, v) == IF JsTruthy(v) THEN <<Part(label, v.s)>> ELSE <<>>
        slack == Prop(is, "slack")
        ts == SlackTs(r, slack)
    IN  simple("Title", Prop(is, "title"))
        \o simple("Issue body", Prop(is, "body_html"))
        \o simple("Account", Prop(Prop(is, "account"), "name"))
        \o simple("Requester", Prop(Prop(is, "requester"), "email"))
        \o simple("State", Prop(is, "state"))
        \o simple("Pylon link", Prop(is, "link"))
        \o (IF JsTruthy(slack) /\ JsTruthy(Prop(slack, "channel_id")) /\ JsTruthy(ts)
            THEN <<Part("Slack thread", buildSlackThreadUrl(Prop(slack, "channel_id").s, ts.s))>>
            ELSE <<>>)

\* a merge in the other order, { ...issue, ...fullIssue }
MergeHydrated_apiWins(full, is) ==
    JObj([k \in DOMAIN full.o \cup DOMAIN is.o |->
            IF k \in DOMAIN full.o THEN full.o[k] ELSE is.o[k]])

\* { ...fullIssue, ...issue, slack: fullIssue.slack ?? issue.slack }
MergeHydrated(full, is) ==
    JObj([k \in DOMAIN full.o \cup DOMAIN is.o \cup {"slack"} |->
            IF k = "slack"
            THEN (IF JsNullish(Prop(full, "slack")) THEN Prop(is, "slack") ELSE Prop(full, "slack"))
            ELSE IF k \in DOMAIN is.o THEN is.o[k]
            ELSE full.o[k]])

\* slack data taken as present whenever issue.slack is an object
hasSlack_anySlack(is) == JsTruthy(Prop(is, "slack")) /\ Prop(is, "slack").t = "obj"

\* issue.slack && typeof issue.slack === "object" && issue.slack.channel_id
hasSlack(is) ==
    JsTruthy(Prop(is, "slack")) /\ Prop(is, "slack").t = "obj"
        /\ JsTruthy(Prop(Prop(is, "slack"), "channel_id"))

(***************************************************************************)
(* Sample requests                                                         *)
(***************************************************************************)
Plain == <<"a">>
Placeholder == <<"{", "{", "a", "}", "}">>

\* strings a webhook field may carry
TitleSamples == {Plain, Placeholder, <<"a", "{", "{", "}", "}">>, <<"{", "a", "}">>,
                 <<"}", "}", "{", "{">>, <<"{", "{", "\n", "}", "}">>}
IdSamples == {<<"i">>, Placeholder}
ChannelSamples == {<<"C">>, Placeholder}
TsSamples == {<<"1", ".", "2">>, Placeholder}

\* the object whose keys are K, with the given value for every key it has
ObjOf(K, vals) == JObj([k \in K |-> vals[k]])

SlackSamples ==
    {ObjOf(K, [channel_id |-> JStr(c), message_ts |-> JStr(m)]) :
        K \in SUBSET {"channel_id", "message_ts"}, c \in ChannelSamples, m \in TsSamples}

\* issues as the webhook template renders them
WebhookIssues ==
    {ObjOf(K, [id |-> JStr(i), title |-> tv, slack |-> sv]) :
        K \in SUBSET {"id", "title", "slack"}, i \in IdSamples,
        tv \in {JNull} \cup {JStr(x) : x \in TitleSamples}, sv \in SlackSamples}

\* the three payload shapes
Payloads ==
    WebhookIssues \cup {ObjOf({"data"}, [data |-> w]) : w \in WebhookIssues}
                  \cup {ObjOf({"issue"}, [issue |-> w]) : w \in WebhookIssues}

\* issues as GET /issues/{id} returns them
ApiIssues ==
    {ObjOf(K, [id |-> JStr(<<"i">>), title |-> JStr(<<"b">>), slack |-> sv]) :
        K \in {{"id", "title"}, {"id", "title", "slack"}},
        sv \in {JNull, ObjOf({"channel_id", "message_ts"},
                             [channel_id |-> JStr(<<"D">>), message_ts |-> JStr(<<"3", ".", "4">>)])}}

(***************************************************************************)
(* Webhook authentication                                                  *)
(***************************************************************************)
\* length of the hex digest of HMAC-SHA256
HexDigestLen == 64

\* a header or raw body: absent (undefined) or a string
Absent == [present |-> FALSE, s |-> <<>>]
Given(s) == [present |-> TRUE, s |-> s]

\* !value, for a string | undefined
Missing(h) == ~h.present \/ h.s = <<>>

\* config.webhook.pylonSecret, and some other key
PylonSecret == <<"k">>
OtherSecret == <<"x">>

\* a signature string: the hex digest of HMAC-SHA256 under key over msg, cut to len
\* characters (a digest is a function of key and message, and of nothing else)
Mac(key, msg, len) == [len |-> len, key |-> key, msg |-> msg]
NoSig == Mac(<<>>, <<>>, 0)

\* `${timestamp}.${payload}`
SigningContent(timestamp, payload) == timestamp \o <<".">> \o payload

\* a comparison that looks at the lengths only
timingSafeEqual_lengthOnly(a, b) == [threw |-> a.len # b.len, equal |-> TRUE]

\* crypto.timingSafeEqual(Buffer.from(a), Buffer.from(b)): throws on unequal lengths
timingSafeEqual(a, b) == [threw |-> a.len # b.len, equal |-> a = b]

\* verifySignature(payload, signature, timestamp)
verifySignature(payload, signature, timestamp) ==
    timingSafeEqual(signature, Mac(PylonSecret, SigningContent(timestamp, payload), HexDigestLen))

\* the request passes the checks that precede res.status(200)
Authenticated(r, q) ==
    IF r = "secret"
    THEN ~(Missing(q.secret) \/ q.secret.s # PylonSecret)
    ELSE /\ ~(q.signature = NoSig \/ Missing(q.timestamp) \/ Missing(q.rawBody))
         /\ LET v == verifySignature(q.rawBody.s, q.signature, q.timestamp.s)
            IN  ~v.threw /\ v.equal

TimestampSamples == {Absent, Given(<<"1">>), Given(<<"1", ".", "2">>)}
RawBodySamples == {Absent, Given(<<>>), Given(<<"b">>), Given(<<"2", ".", "b">>)}
ContentSamples == {SigningContent(t.s, b.s) : t \in TimestampSamples, b \in RawBodySamples}
SignatureSamples ==
    {NoSig} \cup {Mac(k, m, n) : k \in {PylonSecret, OtherSecret}, m \in ContentSamples,
                                  n \in {HexDigestLen, HexDigestLen - 1}}
SecretSamples == {Absent, Given(<<>>), Given(PylonSecret), Given(OtherSecret)}

Request(secret, signature, timestamp, rawBody) ==
    [secret |-> secret, signature |-> signature, timestamp |-> timestamp, rawBody |-> rawBody]

Requests(r) ==
    IF r = "secret" THEN {Request(x, NoSig, Absent, Absent) : x \in SecretSamples}
    ELSE {Request(Absent, g, t, b) : g \in SignatureSamples, t \in TimestampSamples,
                                     b \in RawBodySamples}

(***************************************************************************)
(* createWebhookHandler                                                    *)
(***************************************************************************)
\* a try block that ends before the cross-link post
InTry_beforeCrossLink(step) == step # "crossLink"

\* the try block that follows res.status(200) encloses the step
InTry(step) == TRUE

\* an error thrown at a step: caught and logged, or it rejects the handler's promise
Throw(step) ==
    /\ wpc' = "done"
    /\ IF InTry(step)
       THEN logged' = logged + 1 /\ UNCHANGED rejected
       ELSE rejected' = TRUE /\ UNCHANGED logged

\* an origin thread recognised by its channel id alone
HasOriginThread_channelOnly(r, is) == JsTruthy(Prop(Prop(is, "slack"), "channel_id"))

\* the origin thread the cross-link goes to: (issue.slack ?? {}) has channel and ts
HasOriginThread(r, is) ==
    LET slack == Prop(is, "slack")
    IN  JsTruthy(Prop(slack, "channel_id")) /\ JsTruthy(SlackTs(r, slack))

\* the authentication checks and the response: 401, or 200 {ok:true}
WhAuth ==
    /\ wpc = "recv"
    /\ IF Authenticated(rev, req)
       THEN responses' = Append(responses, 200) /\ wpc' = "acked"
       ELSE responses' = Append(responses, 401) /\ wpc' = "done"
    /\ UNCHANGED <<rev, req, downstream, body, whIssue, fullIssue, curIssue, context,
                   triageTs, logged, rejected>>

\* the handler reads req.body, extracts the issue and issues its first downstream call
WhExtract(payload) ==
    /\ wpc = "acked"
    /\ body' = payload
    /\ IF payload.t # "obj"
       THEN /\ Throw("extract")
            /\ UNCHANGED <<downstream, whIssue, curIssue, context>>
       ELSE LET is == extractIssueData(rev, payload)
            IN  /\ whIssue' = is
                /\ curIssue' = is
                /\ IF rev = "secret" /\ JsTruthy(Prop(is, "id")) /\ ~hasSlack(is)
                   THEN /\ downstream' = Append(downstream, "fetchIssueById")
                        /\ wpc' = "hydrate"
                        /\ UNCHANGED context
                   ELSE /\ context' = buildTriageContext(rev, is)
                        /\ downstream' = Append(downstream,
                               IF rev = "hmac" THEN "getOncallMentions" ELSE "triagePost")
                        /\ wpc' = IF rev = "hmac" THEN "oncall" ELSE "triage"
                /\ UNCHANGED <<logged, rejected>>
    /\ UNCHANGED <<rev, req, responses, fullIssue, triageTs>>

\* fetchIssueById returns the issue, or null on any failure
WhHydrated(full) ==
    /\ wpc = "hydrate"
    /\ fullIssue' = full
    /\ curIssue' = IF JsTruthy(full) THEN MergeHydrated(full, curIssue) ELSE curIssue
    /\ context' = buildTriageContext(rev, curIssue')
    /\ downstream' = Append(downstream, "triagePost")
    /\ wpc' = "triage"
    /\ UNCHANGED <<rev, req, responses, body, whIssue, triageTs, logged, rejected>>

\* getOncallMentions resolves or throws
WhOncallDone(ok) ==
    /\ wpc = "oncall"
    /\ IF ok
       THEN /\ downstream' = Append(downstream, "triagePost")
            /\ wpc' = "triage"
            /\ UNCHANGED <<logged, rejected>>
       ELSE /\ Throw("oncall")
            /\ UNCHANGED downstream
    /\ UNCHANGED <<rev, req, responses, body, whIssue, fullIssue, curIssue, context, triageTs>>

\* after the triage message (and its routing reply): the cross-link, or the end
CrossLinkOrDone ==
    IF HasOriginThread(rev, curIssue)
    THEN downstream' = Append(downstream, "crossLink") /\ wpc' = "crosslink"
    ELSE wpc' = "done" /\ UNCHANGED downstream

\* the triage post resolves with a ts, resolves without one, or throws
WhTriagePosted(outcome) ==
    /\ wpc = "triage"
    /\ IF outcome = "throw"
       THEN /\ Throw("triagePost")
            /\ UNCHANGED <<downstream, triageTs>>
       ELSE /\ triageTs' = (outcome = "ts")
            /\ IF rev = "secret" /\ outcome = "ts"
               THEN downstream' = Append(downstream, "routingReply") /\ wpc' = "routing"
               ELSE CrossLinkOrDone
            /\ UNCHANGED <<logged, rejected>>
    /\ UNCHANGED <<rev, req, responses, body, whIssue, fullIssue, curIssue, context>>

\* the threaded routing reply resolves or throws
WhRoutingPosted(ok) ==
    /\ wpc = "routing"
    /\ IF ok
       THEN CrossLinkOrDone /\ UNCHANGED <<logged, rejected>>
       ELSE Throw("routingReply") /\ UNCHANGED downstream
    /\ UNCHANGED <<rev, req, responses, body, whIssue, fullIssue, curIssue, context, triageTs>>

\* the cross-link post into the origin thread resolves or throws
WhCrossLinked(ok) ==
    /\ wpc = "crosslink"
    /\ IF ok
       THEN wpc' = "done" /\ UNCHANGED <<logged, rejected>>
       ELSE Throw("crossLink")
    /\ UNCHANGED <<rev, req, responses, downstream, body, whIssue, fullIssue, curIssue,
                   context, triageTs>>

WebhookStart ==
    /\ wpc = "recv"
    /\ responses = <<>>
    /\ downstream = <<>>
    /\ body = JUndef
    /\ whIssue = JUndef
    /\ fullIssue = JUndef
    /\ curIssue = JUndef
    /\ context = <<>>
    /\ triageTs = FALSE
    /\ logged = 0
    /\ rejected = FALSE

WebhookInit ==
    /\ rev \in {"hmac", "secret"}
    /\ req \in Requests(rev)
    /\ WebhookStart

WebhookIdle ==
    /\ rev = "secret"
    /\ req = Request(Absent, NoSig, Absent, Absent)
    /\ WebhookStart

WebhookNext ==
    \/ WhAuth
    \/ \E payload \in Payloads \cup {JUndef} : WhExtract(payload)
    \/ \E full \in ApiIssues \cup {JNull} : WhHydrated(full)
    \/ \E ok \in BOOLEAN : WhOncallDone(ok)
    \/ \E outcome \in {"ts", "nots", "throw"} : WhTriagePosted(outcome)
    \/ \E ok \in BOOLEAN : WhRoutingPosted(ok)
    \/ \E ok \in BOOLEAN : WhCrossLinked(ok)

(***************************************************************************)
(* The views of the ticket source: fetchIssues, getNewIssues,              *)
(* getOpenNonNewIssues, getMyIssues (pylon.ts)                             *)
(***************************************************************************)
\* every value PylonIssue.state takes at the helpdesk
AllIssueStates == {"new", "waiting_on_you", "waiting_on_customer", "on_hold", "closed"}

\* helpdesk user ids of assignees; NoAssignee: the issue has no assignee
AssigneeIds == {1, 2}
NoAssignee == 0

\* email addresses, and the absence of one
Emails == {<<"a">>, <<"A">>, <<"b">>}
NoEmail == <<>>

\* the data list of a 2xx response: one issue per ticket, in the helpdesk's order
IssueLists ==
    {[i \in Tickets |-> [id |-> i, state |-> f[i].state, assignee |-> f[i].assignee]] :
        f \in [Tickets -> [state : AllIssueStates, assignee : AssigneeIds \cup {NoAssignee}]]}

\* a response to GET /issues: status, body text (read on an error), the data list
Response(status, text, hasData, data) ==
    [status |-> status, text |-> text, hasData |-> hasData, data |-> data]
NoResponse == Response(0, <<>>, FALSE, <<>>)

Responses ==
    {Response(200, <<>>, TRUE, l) : l \in IssueLists}
        \cup {Response(200, <<>>, FALSE, <<>>)}
        \cup {Response(st, t, FALSE, <<>>) : st \in {404, 500}, t \in {<<>>, <<"e">>}}

\* response.ok
ResponseOk(r) == r.status \in 200..299

\* an error that carries the status only
ApiError_statusOnly(r) == [status |-> r.status, body |-> <<>>]

\* new Error(`pylon api error: ${response.status} ${response.statusText} - ${errorBody}`)
ApiError(r) == [status |-> r.status, body |-> r.text]
NoError == [status |-> 0, body |-> <<>>]

\* fetchIssues after its request: throws on a response that is not ok, returns
\* data.data, or [] when the body has no data
fetchIssues(r) ==
    IF ~ResponseOk(r) THEN [threw |-> TRUE, error |-> ApiError(r), issues |-> <<>>]
    ELSE IF ~r.hasData THEN [threw |-> FALSE, error |-> NoError, issues |-> <<>>]
    ELSE [threw |-> FALSE, error |-> NoError, issues |-> r.data]

\* String.prototype.toLowerCase on the letters of the model
LowerChar(c) == IF c = "A" THEN "a" ELSE IF c = "B" THEN "b" ELSE c

\* a comparison of the emails as they are
toLowerCase_asIs(str) == str

toLowerCase(str) == [i \in DOMAIN str |-> LowerChar(str[i])]

\* getMyIssues: const relevantStates = ["new", ...OPEN_NON_NEW_STATES]
relevantStates == {"new"} \cup OPEN_NON_NEW_STATES

\* getMyIssues: issues.filter((issue) => relevantStates.includes(issue.state))
stateFiltered(issues) == SelectSeq(issues, LAMBDA issue : issue.state \in relevantStates)

\* getMyIssues: the assignee ids whose email is looked up
AssigneesOf(issues) == {issues[i].assignee : i \in DOMAIN issues} \ {NoAssignee}

\* getMyIssues: the final filter by assignee email
myIssues(issues, emails, assigneeEmail) ==
    SelectSeq(stateFiltered(issues),
              LAMBDA issue :
                  /\ issue.assignee # NoAssignee
                  /\ issue.assignee \in DOMAIN emails
                  /\ emails[issue.assignee] # NoEmail
                  /\ toLowerCase(emails[issue.assignee]) = toLowerCase(assigneeEmail))

ViewCall(view, email) == [view |-> view, email |-> email]
NoViewCall == ViewCall("none", NoEmail)

\* a caller calls a view; the view calls fetchIssues, which sends its request
CallView(view, email) ==
    /\ viewPc = "idle"
    /\ view = "getMyIssues" <=> email # NoEmail
    /\ viewCall' = ViewCall(view, email)
    /\ fetchCount' = fetchCount + 1
    /\ viewPc' = "fetching"
    /\ UNCHANGED <<fetchResponse, emailMap, viewResult, viewError>>

\* the response arrives: fetchIssues throws or returns, and the view filters
FetchResponds(r) ==
    /\ viewPc = "fetching"
    /\ fetchResponse' = r
    /\ LET f == fetchIssues(r)
       IN  IF f.threw
           THEN /\ viewError' = f.error
                /\ viewPc' = "threw"
                /\ UNCHANGED viewResult
           ELSE IF viewCall.view = "getMyIssues"
           THEN /\ viewPc' = "resolving"
                /\ UNCHANGED <<viewResult, viewError>>
           ELSE /\ viewResult' = (IF viewCall.view = "getNewIssues" THEN FilterNew(f.issues)
                                  ELSE FilterOpenNonNew(f.issues))
                /\ viewPc' = "returned"
                /\ UNCHANGED viewError
    /\ UNCHANGED <<viewCall, fetchCount, emailMap>>

\* getMyIssues: every fetchPylonUserEmail has returned an email or null
EmailsResolved(m) ==
    /\ viewPc = "resolving"
    /\ DOMAIN m = AssigneesOf(stateFiltered(fetchIssues(fetchResponse).issues))
    /\ emailMap' = m
    /\ viewResult' = myIssues(fetchIssues(fetchResponse).issues, m, viewCall.email)
    /\ viewPc' = "returned"
    /\ UNCHANGED <<viewCall, fetchCount, fetchResponse, viewError>>

ViewInit ==
    /\ viewCall = NoViewCall
    /\ viewPc = "idle"
    /\ fetchCount = 0
    /\ fetchResponse = NoResponse
    /\ emailMap = <<>>
    /\ viewResult = <<>>
    /\ viewError = NoError

ViewNext ==
    \/ \E view \in {"getNewIssues", "getOpenNonNewIssues", "getMyIssues"},
          email \in {NoEmail, <<"a">>, <<"A">>} : CallView(view, email)
    \/ \E r \in Responses : FetchResponds(r)
    \/ \E K \in SUBSET AssigneeIds : \E m \in [K -> Emails \cup {NoEmail}] : EmailsResolved(m)

(***************************************************************************)
(* The on-call resolver (getOncallEngineerForSchedule, getAllOncallEngineers) *)
(***************************************************************************)
\* config.incidentIo.scheduleIds, in the order Promise.all lists them
Schedules == <<"sdk", "docs", "askFern">>

\* slack user ids the schedule API may return
SlackUserIds == {1, 2, 3}

\* responses to one schedule query: a status that is not ok, a rejected fetch, no
\* entry in the window, a first entry without slack_user_id, a first entry with one
ScheduleOutcomes == {"non2xx", "neterr", "noentry", "nochatid", "ok"}

\* how a call of getOncallEngineerForSchedule settled
Settled(kind, id) == [kind |-> kind, id |-> id]
Pending == Settled("pending", 0)

\* getOncallEngineerForSchedule after its fetch: throws, returns null or returns the id
getOncallEngineerForSchedule(outcome, id) ==
    IF outcome \in {"non2xx", "neterr"} THEN Settled("threw", 0)
    ELSE IF outcome \in {"noentry", "nochatid"} THEN Settled("null", 0)
    ELSE Settled("id", id)

RECURSIVE Dedupe(_)
\* [...new Set(list)]: the first occurrence of every element, in order
Dedupe(list) ==
    IF list = <<>> THEN <<>>
    ELSE LET front == Dedupe(SubSeq(list, 1, Len(list) - 1))
             last == list[Len(list)]
         IN  IF last \in Range(front) THEN front ELSE Append(front, last)

\* results.filter((id) => id !== null), as ids
NonNull(rs) ==
    LET kept == SelectSeq(Schedules, LAMBDA sc : rs[sc].kind = "id")
    IN  [i \in DOMAIN kept |-> rs[kept[i]].id]

\* a caller calls getAllOncallEngineers: the three queries start
CallOncall ==
    /\ oncallPc = "idle"
    /\ oncallPc' = "waiting"
    /\ results' = [sc \in Range(Schedules) |-> Pending]
    /\ UNCHANGED uniqueIds

\* one schedule query is answered; Promise.all rejects with the first rejection
\* and resolves when every call has resolved
ScheduleResponds(sc, outcome, id) ==
    /\ oncallPc = "waiting"
    /\ results[sc] = Pending
    /\ LET r == getOncallEngineerForSchedule(outcome, id)
           rs == [results EXCEPT ![sc] = r]
       IN  /\ results' = rs
           /\ IF r.kind = "threw"
              THEN oncallPc' = "threw" /\ UNCHANGED uniqueIds
              ELSE IF \A x \in Range(Schedules) : rs[x] # Pending
              THEN oncallPc' = "returned" /\ uniqueIds' = Dedupe(NonNull(rs))
              ELSE UNCHANGED <<oncallPc, uniqueIds>>

OncallInit ==
    /\ oncallPc = "idle"
    /\ results = [sc \in Range(Schedules) |-> Settled("none", 0)]
    /\ uniqueIds = <<>>

OncallNext ==
    \/ CallOncall
    \/ \E sc \in Range(Schedules), outcome \in ScheduleOutcomes, id \in SlackUserIds :
           ScheduleResponds(sc, outcome, id)

(***************************************************************************)
(* formatIssue: the customer identifier and the assignee mention            *)
(* (openThreadReminder.ts)                                                  *)
(***************************************************************************)
\* ids of the issue's account and origin channel (NoRef: the issue has none)
AccountIds == {1}
ChannelIds == {1}
NoRef == 0

\* requester emails: absent, well formed, without "@", with nothing after "@"
RequesterEmails == {<<>>, <<"u", "@", "d">>, <<"u">>, <<"u", "@">>}

\* emails of assignees and chat user ids (NoSlackId: lookupByEmail found no user)
AssigneeEmails == {<<"a">>, <<"b">>}
ChatIds == {1, 2}
NoSlackId == 0

\* names the account and channel lookups return (<<>>: the lookup returned none)
AccountNames == {<<>>, <<"N">>}
ChannelNames == {<<>>, <<"c">>}

FormatIssues ==
    [account : AccountIds \cup {NoRef}, channel : ChannelIds \cup {NoRef},
     requester : RequesterEmails, assignee : AssigneeIds \cup {NoAssignee}]

\* per id, what the single lookup returns: fetchAccount's name, getChannelName,
\* fetchPylonUserEmail, getSlackUserIdByEmail
Lookups ==
    [accountName : [AccountIds -> AccountNames],
     channelName : [ChannelIds -> ChannelNames],
     email : [AssigneeIds -> AssigneeEmails \cup {NoEmail}],
     slackId : [AssigneeEmails -> ChatIds \cup {NoSlackId}]]

\* getAccountNamesForIssues: the map holds the ids whose lookup returned a name
accountNamesFor(is, lk) ==
    [a \in {x \in {is.account} \ {NoRef} : lk.accountName[x] # <<>>} |-> lk.accountName[a]]

\* getChannelNamesForIssues
channelNamesFor(is, lk) ==
    [c \in {x \in {is.channel} \ {NoRef} : lk.channelName[x] # <<>>} |-> lk.channelName[c]]

\* getAssigneeEmailsForIssues
assigneeEmailsFor(is, lk) ==
    [a \in {x \in {is.assignee} \ {NoAssignee} : lk.email[x] # NoEmail} |-> lk.email[a]]

\* the chat lookup keyed by the assignee's own id instead of the resolved email
assigneeSlackIdsFor_noEmailHop(is, lk) ==
    [a \in {x \in {is.assignee} \ {NoAssignee} :
                \E e \in AssigneeEmails : lk.slackId[e] # NoSlackId} |->
        lk.slackId[CHOOSE e \in AssigneeEmails : lk.slackId[e] # NoSlackId]]

\* getAssigneeSlackIdsForIssues: emails first, then one lookup by email per entry
assigneeSlackIdsFor(is, lk) ==
    LET assigneeEmails == assigneeEmailsFor(is, lk)
    IN  [a \in {x \in DOMAIN assigneeEmails : lk.slackId[assigneeEmails[x]] # NoSlackId} |->
            lk.slackId[assigneeEmails[a]]]

\* positions of "@" in the string
AtSigns(str) == {i \in DOMAIN str : str[i] = "@"}

\* email.split("@")[1]: undefined without "@", else the text between the first
\* "@" and the next one (or the end)
SplitAtSecond(str) ==
    IF AtSigns(str) = {} THEN Null
    ELSE LET first == CHOOSE i \in AtSigns(str) : \A j \in AtSigns(str) : i <= j
             rest == {j \in AtSigns(str) : j > first}
             stop == IF rest = {} THEN Len(str) + 1
                     ELSE CHOOSE j \in rest : \A k \in rest : j <= k
         IN  Str(SubSeq(str, first + 1, stop - 1))

\* issue.requester?.email?.split("@")[1]
requesterDomain(is) == IF is.requester = <<>> THEN Null ELSE SplitAtSecond(is.requester)

\* issue.account?.id && options?.accountNames?.get(issue.account.id)
accountName(is, opt) ==
    IF is.account # NoRef /\ is.account \in DOMAIN opt.accountNames
    THEN Str(opt.accountNames[is.account]) ELSE Null

\* issue.slack?.channel_id && options?.channelNames?.get(issue.slack.channel_id)
channelName(is, opt) ==
    IF is.channel # NoRef /\ is.channel \in DOMAIN opt.channelNames
    THEN Str(opt.channelNames[is.channel]) ELSE Null

\* the channel name taking priority over the account name
customerIdentifier_channelFirst(is, opt) ==
    LET value == IF Truthy(channelName(is, opt))
                 THEN Str(<<"#">> \o channelName(is, opt).text)
                 ELSE IF Truthy(accountName(is, opt)) THEN accountName(is, opt)
                 ELSE requesterDomain(is)
    IN  IF Truthy(value) THEN value ELSE Null

\* accountName || (channelName ? `#${channelName}` : undefined) || requesterDomain,
\* as [customerIdentifier, title].filter(Boolean) keeps it (Null: omitted)
customerIdentifier(is, opt) ==
    LET value == IF Truthy(accountName(is, opt)) THEN accountName(is, opt)
                 ELSE IF Truthy(channelName(is, opt))
                 THEN Str(<<"#">> \o channelName(is, opt).text)
                 ELSE requesterDomain(is)
    IN  IF Truthy(value) THEN value ELSE Null

\* issue.assignee?.id && options?.assigneeSlackIds?.get(issue.assignee.id);
\* the id of the mention token ` <@${assigneeSlackId}>`, NoSlackId without one
assigneePart(is, opt) ==
    IF is.assignee # NoAssignee /\ is.assignee \in DOMAIN opt.assigneeSlackIds
    THEN opt.assigneeSlackIds[is.assignee] ELSE NoSlackId

NoLine == [identifier |-> Null, mention |-> NoSlackId]

\* the builder's Promise.all of the three batch resolutions
ResolveOptions ==
    /\ fmtPc = "start"
    /\ options' = [channelNames |-> channelNamesFor(fmtIssue, lookups),
                   accountNames |-> accountNamesFor(fmtIssue, lookups),
                   assigneeSlackIds |-> assigneeSlackIdsFor(fmtIssue, lookups)]
    /\ fmtPc' = "resolved"
    /\ UNCHANGED <<fmtIssue, lookups, line>>

\* formatIssue(issue, index, options)
FormatLine ==
    /\ fmtPc = "resolved"
    /\ line' = [identifier |-> customerIdentifier(fmtIssue, options),
                mention |-> assigneePart(fmtIssue, options)]
    /\ fmtPc' = "formatted"
    /\ UNCHANGED <<fmtIssue, lookups, options>>

NoOptions == [channelNames |-> <<>>, accountNames |-> <<>>, assigneeSlackIds |-> <<>>]

FormatStart ==
    /\ fmtPc = "start"
    /\ options = NoOptions
    /\ line = NoLine

FormatInit ==
    /\ fmtIssue \in FormatIssues
    /\ lookups \in Lookups
    /\ FormatStart

FormatIdle ==
    /\ fmtIssue = [account |-> NoRef, channel |-> NoRef, requester |-> <<>>, assignee |-> NoAssignee]
    /\ lookups = [accountName |-> [a \in AccountIds |-> <<>>],
                  channelName |-> [c \in ChannelIds |-> <<>>],
                  email |-> [a \in AssigneeIds |-> NoEmail],
                  slackId |-> [e \in AssigneeEmails |-> NoSlackId]]
    /\ FormatStart

FormatNext ==
    \/ ResolveOptions
    \/ FormatLine

(***************************************************************************)
(* The flags of /rooster check (index.ts 130-193, without --mine)          *)
(***************************************************************************)
\* args.includes("--new"), ("--open"), ("--channel"), ("--remind")
Args(op, filterNew, filterOpen, channel, remind) ==
    [op |-> op, filterNew |-> filterNew, filterOpen |-> filterOpen,
     channel |-> channel, remind |-> remind]

NoArgs == Args("none", FALSE, FALSE, FALSE, FALSE)

\* the command arrives with its text
CheckWithArgs(filterNew, filterOpen, channel, remind) ==
    /\ CheckCommand(filterNew, filterOpen, channel, remind)
    /\ args' = Args("check", filterNew, filterOpen, channel, remind)

CommandInit == args = NoArgs

\* one check command on a ticket list that stays as it is while the command runs
CommandNext ==
    \/ \E filterNew, filterOpen, channel, remind \in BOOLEAN :
           CheckWithArgs(filterNew, filterOpen, channel, remind)
    \/ (\E found \in BOOLEAN : ChannelLookupDone(found)) /\ UNCHANGED args
    \/ (\E outcome \in FetchOutcomes : FetchNewDone(outcome)) /\ UNCHANGED args
    \/ (\E outcome \in FetchOutcomes : FetchOpenDone(outcome)) /\ UNCHANGED args
    \/ ResolveDone /\ UNCHANGED args
    \/ (\E ok \in BOOLEAN, ids \in OncallLists : OncallDone(ok, ids)) /\ UNCHANGED args
    \/ (\E ok \in BOOLEAN : PostDone(ok)) /\ UNCHANGED args

(***************************************************************************)
(* The day count (index.ts 138-139) and the query window (pylon.ts 206-209) *)
(* Time is counted in hours; startOfToday, the local midnight, is hour 0.  *)
(***************************************************************************)
MaxArgs == 2

\* the 24 of 24 * 60 * 60 * 1000
HoursPerDay == 24

\* the image sets TZ=America/New_York: a local day has 23, 24 or 25 hours
DayLengths == {HoursPerDay - 1, HoursPerDay, HoursPerDay + 1}

Digits == <<"0", "1", "2", "3", "4", "5", "6", "7", "8", "9">>

IsDigit(ch) == \E i \in DOMAIN Digits : Digits[i] = ch

DigitValue(ch) == (CHOOSE i \in DOMAIN Digits : Digits[i] = ch) - 1

\* tokens of command.text after the subcommand
ArgTokens ==
    {<<"0">>, <<"3">>, <<"0", "2">>, <<"1", "a">>, <<"-", "-", "n", "e", "w">>}

ArgLists == UNION {[1..n -> ArgTokens] : n \in 0..MaxArgs}

\* /^\d+$/.test(arg)
IsNumeric(arg) == Len(arg) > 0 /\ \A i \in DOMAIN arg : IsDigit(arg[i])

RECURSIVE parseInt(_)
\* parseInt(arg, 10) of a string of digits
parseInt(arg) ==
    IF arg = <<>> THEN 0
    ELSE parseInt(SubSeq(arg, 1, Len(arg) - 1)) * 10 + DigitValue(arg[Len(arg)])

\* args.slice(1).find((arg) => /^\d+$/.test(arg)); <<>> stands for undefined
daysArg(rest) ==
    IF \E i \in DOMAIN rest : IsNumeric(rest[i])
    THEN rest[CHOOSE i \in DOMAIN rest :
                  IsNumeric(rest[i]) /\ \A j \in 1..(i - 1) : ~IsNumeric(rest[j])]
    ELSE <<>>

Max(a, b) == IF a >= b THEN a ELSE b

\* daysArg ? Math.max(1, parseInt(daysArg, 10)) : 1
parseDays(rest) ==
    IF daysArg(rest) # <<>> THEN Max(1, parseInt(daysArg(rest))) ELSE 1

\* startOfToday.getTime() - (days - 1) * 24h and startOfToday.getTime() + 24h
queryWindow(d) == [start |-> 0 - (d - 1) * HoursPerDay, end |-> 0 + HoursPerDay]

NoWindow == [start |-> 0, end |-> 0]

\* case "check": the day count is parsed
ParseDays ==
    /\ winPc = "start"
    /\ days' = parseDays(cmdArgs)
    /\ winPc' = "parsed"
    /\ UNCHANGED <<cmdArgs, dayLength, now, window>>

\* fetchIssues(days) sets start_time and end_time of its query
QueryWindow ==
    /\ winPc = "parsed"
    /\ window' = queryWindow(days)
    /\ winPc' = "queried"
    /\ UNCHANGED <<cmdArgs, dayLength, now, days>>

WindowStart ==
    /\ winPc = "start"
    /\ days = 1
    /\ window = NoWindow

WindowInit ==
    /\ cmdArgs \in ArgLists
    /\ dayLength \in DayLengths
    /\ now \in 0..(dayLength - 1)
    /\ WindowStart

WindowIdle ==
    /\ cmdArgs = <<>>
    /\ dayLength = HoursPerDay
    /\ now = 0
    /\ WindowStart

WindowNext ==
    \/ ParseDays
    \/ QueryWindow

(***************************************************************************)
(* The scheduled digest runs (index.ts 100-117, sendCheckMessage)          *)
(***************************************************************************)
MaxRuns == 2

\* the morning check (9 AM, 7 days) and the end-of-day check (5 PM, 1 day)
Handlers == {"morning", "endOfDay"}

\* the awaits of sendCheckMessage(app, true, ...), in order
CronSteps == <<"channel", "fetch", "resolve", "oncall", "post">>

\* what an await can do: resolve, resolve with no ticket (the fetch), reject
StepOutcomes(step) ==
    IF step = "fetch" THEN {"ok", "none", "throw"} ELSE {"ok", "throw"}

\* the await of a step as if it stood before the handler's try block
InCronTry_afterChannel(step) == step # "channel"

\* try { await sendCheckMessage(...) } catch: the whole call is inside the try
InCronTry(step) == TRUE

NextStep(step) ==
    LET i == CHOOSE k \in DOMAIN CronSteps : CronSteps[k] = step
    IN  IF i < Len(CronSteps) THEN CronSteps[i + 1] ELSE "idle"

\* node-cron fires a handler
CronFires(h) ==
    /\ ~crashed
    /\ cronPc = "idle"
    /\ runs < MaxRuns
    /\ runs' = runs + 1
    /\ cronHandler' = h
    /\ cronPc' = CronSteps[1]
    /\ UNCHANGED <<thrown, cronLog, crashed, cronPosted, served>>

\* the await the running handler is at settles
CronStep(outcome) ==
    /\ ~crashed
    /\ cronPc # "idle"
    /\ outcome \in StepOutcomes(cronPc)
    /\ IF outcome = "throw"
       THEN /\ thrown' = Append(thrown, <<cronHandler, cronPc>>)
            /\ IF InCronTry(cronPc)
               THEN /\ cronLog' = Append(cronLog, <<cronHandler, cronPc>>)
                    /\ UNCHANGED crashed
               ELSE /\ crashed' = TRUE
                    /\ UNCHANGED cronLog
            /\ cronPc' = "idle"
            /\ UNCHANGED cronPosted
       ELSE /\ cronPc' = (IF outcome = "none" THEN "idle" ELSE NextStep(cronPc))
            /\ cronPosted' = (IF cronPc = "post" THEN cronPosted + 1 ELSE cronPosted)
            /\ UNCHANGED <<thrown, cronLog, crashed>>
    /\ UNCHANGED <<cronHandler, runs, served>>

\* /rooster status is answered while the process lives
StatusCommand ==
    /\ ~crashed
    /\ served < MaxRuns
    /\ served' = served + 1
    /\ UNCHANGED <<cronPc, cronHandler, runs, thrown, cronLog, crashed, cronPosted>>

CronInit ==
    /\ cronPc = "idle"
    /\ cronHandler = "morning"
    /\ runs = 0
    /\ thrown = <<>>
    /\ cronLog = <<>>
    /\ crashed = FALSE
    /\ cronPosted = 0
    /\ served = 0

CronNext ==
    \/ \E h \in Handlers : CronFires(h)
    \/ \E outcome \in {"ok", "none", "throw"} : CronStep(outcome)
    \/ StatusCommand

(***************************************************************************)
(* The awaits of case "check" (index.ts 130-193), respond() included       *)
(***************************************************************************)
MaxCmds == 3

\* the replies of the subcommand
ReplyKinds == {"checking", "noEmail", "digest", "noIssues", "error"}

\* the respond() calls inside try { } (index.ts 145-162, 174-188); the
\* "checking ..." reply (144, 173) and the reply of the catch block (165, 191)
\* are outside
InCheckTry(reply) == reply \notin {"checking", "error"}

\* what each awaited call can do: users.info, getCheckMessage or
\* getCheckMineMessage, sendCheckMessage
CallOutcomes(pos) ==
    IF pos = "users" THEN {"email", "noEmail", "throw"}
    ELSE IF pos = "build" THEN {"message", "null", "throw"}
    ELSE {"true", "false", "throw"}

\* where the handler goes after "checking ..." was delivered
AfterChecking(flags) ==
    IF flags.mine THEN "users" ELSE IF flags.channel THEN "send" ELSE "build"

\* /rooster check arrives: await respond(`checking ...`)
CheckArrives(mine, channel) ==
    /\ rPc \in {"idle", "done"}
    /\ ~rEscaped
    /\ rCmds < MaxCmds
    /\ rCmds' = rCmds + 1
    /\ rFlags' = [mine |-> mine, channel |-> channel]
    /\ rPc' = "respond"
    /\ rReply' = "checking"
    /\ rReplies' = <<>>
    /\ rFailed' = FALSE
    /\ rPosted' = 0
    /\ UNCHANGED rEscaped

\* an awaited respond() resolves or rejects
RespondSettles(ok) ==
    /\ rPc = "respond"
    /\ IF ok
       THEN /\ rReplies' = Append(rReplies, rReply)
            /\ rPc' = (IF rReply = "checking" THEN AfterChecking(rFlags) ELSE "done")
            /\ UNCHANGED <<rReply, rFailed, rEscaped>>
       ELSE /\ rFailed' = TRUE
            /\ IF InCheckTry(rReply)
               THEN /\ rReply' = "error"
                    /\ UNCHANGED <<rPc, rEscaped>>
               ELSE /\ rEscaped' = TRUE
                    /\ rPc' = "done"
                    /\ UNCHANGED rReply
            /\ UNCHANGED rReplies
    /\ UNCHANGED <<rFlags, rPosted, rCmds>>

\* users.info, the digest builder or sendCheckMessage settles
CallSettles(outcome) ==
    /\ rPc \in {"users", "build", "send"}
    /\ outcome \in CallOutcomes(rPc)
    /\ IF outcome = "throw"
       THEN /\ rFailed' = TRUE
            /\ rPc' = "respond"
            /\ rReply' = "error"
            /\ UNCHANGED rPosted
       ELSE /\ UNCHANGED rFailed
            /\ IF outcome = "email"
               THEN rPc' = "build" /\ UNCHANGED <<rReply, rPosted>>
               ELSE IF outcome = "true"
               THEN rPc' = "done" /\ rPosted' = rPosted + 1 /\ UNCHANGED rReply
               ELSE /\ rPc' = "respond"
                    /\ rReply' = (IF outcome = "noEmail" THEN "noEmail"
                                  ELSE IF outcome = "message" THEN "digest" ELSE "noIssues")
                    /\ UNCHANGED rPosted
    /\ UNCHANGED <<rFlags, rReplies, rEscaped, rCmds>>

ReplyInit ==
    /\ rPc = "idle"
    /\ rFlags = [mine |-> FALSE, channel |-> FALSE]
    /\ rReply = "checking"
    /\ rReplies = <<>>
    /\ rFailed = FALSE
    /\ rEscaped = FALSE
    /\ rPosted = 0
    /\ rCmds = 0

ReplyNext ==
    \/ \E mine, channel \in BOOLEAN : CheckArrives(mine, channel)
    \/ \E ok \in BOOLEAN : RespondSettles(ok)
    \/ \E outcome \in {"email", "noEmail", "message", "null", "true", "false", "throw"} :
           CallSettles(outcome)

(***************************************************************************)
(* Two flows racing on the same miss (fetchAccount, fetchPylonUserEmail)   *)
(***************************************************************************)
\* the batch resolutions built on fetchAccount and fetchPylonUserEmail
RaceOps == {"accounts", "emails"}

RaceFlows == {"A", "B"}

\* a flow starts a batch for one id: a miss issues its lookup
RaceStart(f, op, id) ==
    /\ StartBatch(f, op, {id})
    /\ issued' = [issued EXCEPT ![f] = [i \in Ids |-> IF i \in flow'[f].inflight THEN 1 ELSE 0]]
    /\ UNCHANGED lastOk

\* the response of a flow's lookup arrives
RaceRespond(f, i, outcome, v) ==
    /\ Respond(f, i, outcome, v)
    /\ lastOk' = (IF outcome = "ok"
                  THEN [lastOk EXCEPT ![KindOf(flow[f].op, flow[f].hop)][flow[f].key[i]] = v]
                  ELSE lastOk)
    /\ UNCHANGED issued

RaceFinish(f) ==
    /\ Finish(f)
    /\ UNCHANGED <<issued, lastOk>>

RaceGhostInit ==
    /\ issued = [f \in RaceFlows |-> [i \in Ids |-> 0]]
    /\ lastOk = [kd \in Kinds |-> [k \in AllKeys |-> NoVal]]

RaceNext ==
    \/ \E f \in RaceFlows, op \in RaceOps, id \in Ids : RaceStart(f, op, id)
    \/ \E f \in RaceFlows, i \in Ids, outcome \in {"ok", "non2xx", "nofield", "throw"}, v \in Names :
           RaceRespond(f, i, outcome, v)
    \/ \E f \in RaceFlows : RaceFinish(f)

(***************************************************************************)
(* Payload normalisation: extractIssueData, then buildTriageContext        *)
(***************************************************************************)
\* what the keys data and issue may hold: an issue, an empty object, a string, null
NestedSamples(title) ==
    {ObjOf({"title", "link"}, [title |-> JStr(<<title>>), link |-> JStr(<<title, "l">>)]),
     ObjOf({"title"}, [title |-> JStr(<<title>>)]),
     JObj(<<>>), JStr(<<"s">>), JNull}

\* payloads with every combination of data, issue and top-level fields
ShapedPayloads ==
    {ObjOf(K, [data |-> d, issue |-> i, title |-> JStr(<<"t">>), link |-> JStr(<<"t", "l">>)]) :
        K \in SUBSET {"data", "issue", "title", "link"},
        d \in NestedSamples("d"), i \in NestedSamples("i")}

\* const issue = extractIssueData(payload)
ExtractIssue ==
    /\ plPc = "start"
    /\ plIssue' = extractIssueData(plRev, plPayload)
    /\ plPc' = "extracted"
    /\ UNCHANGED <<plRev, plPayload, plContext>>

\* const triageContext = buildTriageContext(issue)
BuildContext ==
    /\ plPc = "extracted"
    /\ plContext' = buildTriageContext(plRev, plIssue)
    /\ plPc' = "built"
    /\ UNCHANGED <<plRev, plPayload, plIssue>>

PayloadStart ==
    /\ plPc = "start"
    /\ plIssue = JUndef
    /\ plContext = <<>>

PayloadInit ==
    /\ plRev \in {"hmac", "secret"}
    /\ plPayload \in ShapedPayloads
    /\ PayloadStart

PayloadIdle ==
    /\ plRev = "secret"
    /\ plPayload = JObj(<<>>)
    /\ PayloadStart

PayloadNext ==
    \/ ExtractIssue
    \/ BuildContext

(***************************************************************************)
(* case "check" with --mine (index.ts 131-167) next to the other flags     *)
(***************************************************************************)
MineFlags == [mine : BOOLEAN, channel : BOOLEAN, remind : BOOLEAN,
              filterNew : BOOLEAN, filterOpen : BOOLEAN]

\* the branch --channel and --remind would choose, tested before --mine
Route_channelFirst(flags) ==
    IF flags.remind \/ flags.channel THEN "send"
    ELSE IF flags.mine THEN "users"
    ELSE "build"

\* if (filterMine) { ... break; } comes first; then sendToChannel decides
Route(flags) ==
    IF flags.mine THEN "users"
    ELSE IF flags.remind \/ flags.channel THEN "send"
    ELSE "build"

\* the command arrives; respond(`checking ...`)
MineCommand(flags) ==
    /\ mPc = "idle"
    /\ mFlags' = flags
    /\ mReplies' = <<"checking">>
    /\ mPc' = Route(flags)
    /\ UNCHANGED <<mEmail, mPosted, mOncall, mFetches>>

\* app.client.users.info: the profile email, none, or a throw
UsersInfoSettles(outcome) ==
    /\ mPc = "users"
    /\ IF outcome = "throw"
       THEN /\ mReplies' = Append(mReplies, "error")
            /\ mPc' = "done"
            /\ UNCHANGED mEmail
       ELSE /\ mEmail' = outcome
            /\ IF outcome = "noEmail"
               THEN mReplies' = Append(mReplies, "noEmail") /\ mPc' = "done"
               ELSE mPc' = "mine" /\ UNCHANGED mReplies
    /\ UNCHANGED <<mFlags, mPosted, mOncall, mFetches>>

\* getCheckMineMessage(app, days, userEmail): fetches the user's issues through
\* getMyIssues and returns the digest text, null, or throws
MineMessageSettles(outcome) ==
    /\ mPc = "mine"
    /\ mFetches' = mFetches + 1
    /\ mReplies' = Append(mReplies, IF outcome = "message" THEN "digest"
                                    ELSE IF outcome = "null" THEN "noneAssigned"
                                    ELSE "error")
    /\ mPc' = "done"
    /\ UNCHANGED <<mFlags, mEmail, mPosted, mOncall>>

\* getCheckMessage: the digest text, null, or a throw
BuildSettles(outcome) ==
    /\ mPc = "build"
    /\ mFetches' = mFetches + 1
    /\ mReplies' = Append(mReplies, IF outcome = "message" THEN "digest"
                                    ELSE IF outcome = "null" THEN "noIssues"
                                    ELSE "error")
    /\ mPc' = "done"
    /\ UNCHANGED <<mFlags, mEmail, mPosted, mOncall>>

\* sendCheckMessage(app, tagOncall, options): a throw of the channel lookup,
\* false, a throw of the on-call lookup or of the post, or true
SendSettles(outcome) ==
    /\ mPc = "send"
    /\ mFetches' = (IF outcome = "noChannel" THEN mFetches ELSE mFetches + 1)
    /\ mOncall' = (IF mFlags.remind /\ outcome \in {"throw", "true"} THEN mOncall + 1 ELSE mOncall)
    /\ mPosted' = (IF outcome = "true" THEN mPosted + 1 ELSE mPosted)
    /\ mReplies' = (IF outcome = "false" THEN Append(mReplies, "noIssues")
                    ELSE IF outcome = "true" THEN mReplies
                    ELSE Append(mReplies, "error"))
    /\ mPc' = "done"
    /\ UNCHANGED <<mFlags, mEmail>>

MineInit ==
    /\ mPc = "idle"
    /\ mFlags = [mine |-> FALSE, channel |-> FALSE, remind |-> FALSE,
                 filterNew |-> FALSE, filterOpen |-> FALSE]
    /\ mEmail = "none"
    /\ mReplies = <<>>
    /\ mPosted = 0
    /\ mOncall = 0
    /\ mFetches = 0

MineNext ==
    \/ \E flags \in MineFlags : MineCommand(flags)
    \/ \E outcome \in {"email", "noEmail", "throw"} : UsersInfoSettles(outcome)
    \/ \E outcome \in {"message", "null", "throw"} : MineMessageSettles(outcome)
    \/ \E outcome \in {"message", "null", "throw"} : BuildSettles(outcome)
    \/ \E outcome \in {"noChannel", "false", "throw", "true"} : SendSettles(outcome)

(***************************************************************************)
(* Thread links: buildSlackThreadUrl (slackUtils.ts) and parseThreadUrl    *)
(* (triage.ts)                                                             *)
(***************************************************************************)
\* \d{10} and \d{6} of the archive format
SecDigits == 10
MicroDigits == 6

UpperLetters == {"A", "B", "C", "D", "E", "F", "G", "H", "I", "J", "K", "L", "M",
                 "N", "O", "P", "Q", "R", "S", "T", "U", "V", "W", "X", "Y", "Z"}

\* [A-Z0-9]
UpperOrDigit(ch) == ch \in UpperLetters \/ IsDigit(ch)

Greatest(S) == CHOOSE n \in S : \A m \in S : m <= n
Least(S) == CHOOSE n \in S : \A m \in S : n <= m

\* the literal lit stands in s at position p
StartsAt(s, p, lit) == p + Len(lit) - 1 <= Len(s) /\ SubSeq(s, p, p + Len(lit) - 1) = lit

\* the longest run of [A-Z0-9], or of \d, that starts at position p
IdRun(s, p) == Greatest({n \in 0..(Len(s) - p + 1) : \A k \in p..(p + n - 1) : UpperOrDigit(s[k])})
DigitRun(s, p) == Greatest({n \in 0..(Len(s) - p + 1) : \A k \in p..(p + n - 1) : IsDigit(s[k])})

ThreadPath == <<"/", "t", "h", "r", "e", "a", "d", "/">>

\* /\/archives\/([A-Z0-9]+)\/p(\d{10})(\d{6})/ matches with "/archives/" at p.
\* The group is followed by "/", which is outside [A-Z0-9], so it can only be
\* the whole run.
ArchiveMatchAt(url, p) ==
    LET g == p + Len(ArchivesPath)
        n == IdRun(url, g)
    IN  /\ StartsAt(url, p, ArchivesPath)
        /\ n >= 1
        /\ StartsAt(url, g + n, <<"/", "p">>)
        /\ DigitRun(url, g + n + 2) >= SecDigits + MicroDigits

\* /\/thread\/([A-Z0-9]+)-(\d+\.\d+)/ matches with "/thread/" at p; "-" and "."
\* are outside the classes before them, so each group is a whole run
ThreadMatchAt(url, p) ==
    LET g == p + Len(ThreadPath)
        n == IdRun(url, g)
        a == DigitRun(url, g + n + 1)
    IN  /\ StartsAt(url, p, ThreadPath)
        /\ n >= 1
        /\ StartsAt(url, g + n, <<"-">>)
        /\ a >= 1
        /\ StartsAt(url, g + n + 1 + a, <<".">>)
        /\ DigitRun(url, g + n + a + 2) >= 1

NoParse == [ok |-> FALSE, channelId |-> <<>>, threadTs |-> <<>>]
Parsed(channelId, threadTs) == [ok |-> TRUE, channelId |-> channelId, threadTs |-> threadTs]

\* the archive format read without putting the dot back
parseThreadUrl_noDot(url) ==
    LET am == {p \in 1..Len(url) : ArchiveMatchAt(url, p)}
    IN  IF am # {}
        THEN LET g == Least(am) + Len(ArchivesPath)
                 n == IdRun(url, g)
             IN  Parsed(SubSeq(url, g, g + n - 1),
                        SubSeq(url, g + n + 2, g + n + 1 + SecDigits + MicroDigits))
        ELSE NoParse

\* parseThreadUrl(url): the first match of the archive format, else the first
\* match of the thread format, else null
parseThreadUrl(url) ==
    LET am == {p \in 1..Len(url) : ArchiveMatchAt(url, p)}
        tm == {p \in 1..Len(url) : ThreadMatchAt(url, p)}
    IN  IF am # {}
        THEN LET g == Least(am) + Len(ArchivesPath)
                 n == IdRun(url, g)
                 d == g + n + 2
             IN  Parsed(SubSeq(url, g, g + n - 1),
                        SubSeq(url, d, d + SecDigits - 1) \o <<".">>
                            \o SubSeq(url, d + SecDigits, d + SecDigits + MicroDigits - 1))
        ELSE IF tm # {}
        THEN LET g == Least(tm) + Len(ThreadPath)
                 n == IdRun(url, g)
                 a == DigitRun(url, g + n + 1)
                 b == DigitRun(url, g + n + a + 2)
             IN  Parsed(SubSeq(url, g, g + n - 1), SubSeq(url, g + n + 1, g + n + a + 1 + b))
        ELSE NoParse

\* channel ids: of upper-case letters and digits, and others
LinkChannels ==
    {<<"C">>, <<"0">>, <<"P", "1">>, <<"C", "0", "5", "2", "D", "F", "W", "V", "C", "G", "6">>, <<"9", "P", "1", "2", "3", "4", "5", "6", "7", "8", "9", "0", "1", "2", "3", "4", "5", "6">>,
     <<"c", "1">>, <<"C", "-", "1">>, <<>>}

\* message timestamps: 10 digits, a dot, 6 digits, and others
LinkTimestamps ==
    {<<"1", "2", "3", "4", "5", "6", "7", "8", "9", "0", ".", "1", "2", "3", "4", "5", "6">>, <<"0", "0", "0", "0", "0", "0", "0", "0", "0", "0", ".", "0", "0", "0", "0", "0", "0">>, <<"1", "7", "0", "0", "0", "0", "0", "0", "0", "0", ".", "0", "0", "0", "0", "0", "1">>, <<"9", "9", "9", "9", "9", "9", "9", "9", "9", "9", ".", "9", "9", "9", "9", "9", "9">>,
     <<"1", "2", "3", "4", "5", "6", "7", "8", "9", "0", "1", "2", "3", "4", "5", "6">>, <<"1", "2", "3", "4", "5", "6", "7", "8", "9", ".", "0", "1", "2", "3", "4", "5", "6">>, <<"1", "2", "3", "4", "5", "6", "7", "8", "9", "0", ".", "1", "2", "3", "4", "5", "6", "7">>, <<"1", ".", "2">>, <<"1", "2", "3", "4", "5", ".", "6", ".", "7">>}

\* links a user may paste
PastedUrls ==
    {<<"h", "t", "t", "p", "s", ":", "/", "/", "a", "p", "p", ".", "s", "l", "a", "c", "k", ".", "c", "o", "m", "/", "c", "l", "i", "e", "n", "t", "/", "T", "0", "/", "C", "0", "5", "2", "/", "t", "h", "r", "e", "a", "d", "/", "C", "0", "5", "2", "-", "1", "2", "3", "4", "5", "6", "7", "8", "9", "0", ".", "1", "2", "3", "4", "5", "6">>,
     <<"h", "t", "t", "p", "s", ":", "/", "/", "b", "u", "i", "l", "d", "w", "i", "t", "h", "f", "e", "r", "n", ".", "s", "l", "a", "c", "k", ".", "c", "o", "m", "/", "a", "r", "c", "h", "i", "v", "e", "s", "/", "C", "0", "5", "2", "/", "p", "1", "2", "3", "4", "5", "6", "7", "8", "9", "0", "1", "2", "3", "4", "5", "6", "?", "t", "h", "r", "e", "a", "d", "_", "t", "s", "=", "1">>,
     <<"h", "t", "t", "p", "s", ":", "/", "/", "a", "p", "p", ".", "s", "l", "a", "c", "k", ".", "c", "o", "m", "/", "c", "l", "i", "e", "n", "t", "/", "T", "0", "/", "C", "0", "5", "2", "/", "t", "h", "r", "e", "a", "d", "/", "c", "1", "-", "1", ".", "2">>,
     <<"h", "t", "t", "p", "s", ":", "/", "/", "e", "x", "a", "m", "p", "l", "e", ".", "c", "o", "m", "/">>}

LinkStart ==
    /\ lkPc = "start"
    /\ lkUrl = <<>>
    /\ lkParsed = NoParse

LinkInit ==
    /\ lkChannel \in LinkChannels
    /\ lkTs \in LinkTimestamps
    /\ LinkStart

LinkIdle ==
    /\ lkChannel = <<>>
    /\ lkTs = <<>>
    /\ LinkStart

BuildUrl ==
    /\ lkPc = "start"
    /\ lkUrl' = buildSlackThreadUrl(lkChannel, lkTs)
    /\ lkPc' = "built"
    /\ UNCHANGED <<lkChannel, lkTs, lkParsed>>

PasteUrl(url) ==
    /\ lkPc = "start"
    /\ lkUrl' = url
    /\ lkPc' = "pasted"
    /\ UNCHANGED <<lkChannel, lkTs, lkParsed>>

ParseUrl ==
    /\ lkPc \in {"built", "pasted"}
    /\ lkParsed' = parseThreadUrl(lkUrl)
    /\ lkPc' = (IF lkPc = "built" THEN "roundTrip" ELSE "parsed")
    /\ UNCHANGED <<lkChannel, lkTs, lkUrl>>

LinkNext ==
    \/ BuildUrl
    \/ \E url \in PastedUrls : PasteUrl(url)
    \/ ParseUrl

(***************************************************************************)
(* getCheckMessage and sendCheckMessage side by side                       *)
(* (openThreadReminder.ts 275-375)                                         *)
(***************************************************************************)
\* lists of distinct tickets, as a view returns them
TicketLists ==
    {s \in UNION {[1..n -> Tickets] : n \in 0..NumTickets} :
        \A i, j \in DOMAIN s : i # j => s[i] # s[j]}

\* per ticket, the customer name the batch lookups resolved (<<>>: none)
NameMaps == [Tickets -> {<<>>, <<"n">>}]

\* options, what the two fetches and the resolutions returned, tagOncall and
\* what getAllOncallEngineers returns; a section that is not asked for is not
\* fetched, and no ticket is in both views
CheckInputs ==
    {in \in [showNew : BOOLEAN, showOpen : BOOLEAN, newIssues : TicketLists,
             openIssues : TicketLists, names : NameMaps, tagOncall : BOOLEAN,
             oncallIds : OncallLists] :
        /\ ~in.showNew => in.newIssues = <<>>
        /\ ~in.showOpen => in.openIssues = <<>>
        /\ Range(in.newIssues) \cap Range(in.openIssues) = {}}

\* issues.map((issue, index) => formatIssue(issue, index, { channelNames, accountNames,
\* assigneeSlackIds })).join("\n")
FormatList(issues, names) ==
    [i \in 1..Len(issues) |-> [formatIssue([id |-> issues[i]], i - 1) EXCEPT !.label = names[issues[i]]]]

\* `*${label} (${issues.length})*\n${list}`
NamedSection(label, issues, names) ==
    <<Tok("section", label, Len(issues), 0)>> \o FormatList(issues, names)

\* the sections array of getCheckMessage
getCheckSections(in) ==
    (IF in.showNew /\ Len(in.newIssues) > 0
     THEN <<NamedSection("new issues", in.newIssues, in.names)>> ELSE <<>>)
    \o (IF in.showOpen /\ Len(in.openIssues) > 0
        THEN <<NamedSection("waiting on you", in.openIssues, in.names)>> ELSE <<>>)

\* a sender that lists the waiting tickets first
sendCheckSections_openFirst(in) ==
    (IF in.showOpen /\ Len(in.openIssues) > 0
     THEN <<NamedSection("waiting on you", in.openIssues, in.names)>> ELSE <<>>)
    \o (IF in.showNew /\ Len(in.newIssues) > 0
        THEN <<NamedSection("new issues", in.newIssues, in.names)>> ELSE <<>>)

\* the sections array of sendCheckMessage
sendCheckSections(in) ==
    (IF in.showNew /\ Len(in.newIssues) > 0
     THEN <<NamedSection("new issues", in.newIssues, in.names)>> ELSE <<>>)
    \o (IF in.showOpen /\ Len(in.openIssues) > 0
        THEN <<NamedSection("waiting on you", in.openIssues, in.names)>> ELSE <<>>)

\* getCheckMessage: null on two empty lists, null on no section, else the text
getCheckMessageFor(in) ==
    IF Len(in.newIssues) = 0 /\ Len(in.openIssues) = 0 THEN Null
    ELSE IF Len(getCheckSections(in)) = 0 THEN Null
    ELSE Str(<<CheckHeader>> \o JoinSections(getCheckSections(in)))

\* sendCheckMessage: false (nothing posted) on two empty lists, else the posted
\* `${oncallMention}${header}${sections.join("\n\n")}`
sendCheckMessageFor(in) ==
    IF Len(in.newIssues) = 0 /\ Len(in.openIssues) = 0 THEN Null
    ELSE Str((IF in.tagOncall THEN OncallMention(in.oncallIds) ELSE <<>>)
             \o <<CheckHeader>> \o JoinSections(sendCheckSections(in)))

SendStart ==
    /\ sdDone = {}
    /\ sdGot = Null
    /\ sdSent = Null

SendInit ==
    /\ sdIn \in CheckInputs
    /\ SendStart

SendIdle ==
    /\ sdIn = [showNew |-> TRUE, showOpen |-> TRUE, newIssues |-> <<>>, openIssues |-> <<>>,
               names |-> [t \in Tickets |-> <<>>], tagOncall |-> FALSE, oncallIds |-> <<>>]
    /\ SendStart

GetCheck ==
    /\ "get" \notin sdDone
    /\ sdGot' = getCheckMessageFor(sdIn)
    /\ sdDone' = sdDone \cup {"get"}
    /\ UNCHANGED <<sdIn, sdSent>>

SendCheck ==
    /\ "send" \notin sdDone
    /\ sdSent' = sendCheckMessageFor(sdIn)
    /\ sdDone' = sdDone \cup {"send"}
    /\ UNCHANGED <<sdIn, sdGot>>

SendNext ==
    \/ GetCheck
    \/ SendCheck

(***************************************************************************)
(* Specifications                                                          *)
(***************************************************************************)
Init ==
    /\ DigestInit
    /\ CacheInit({"A"})
    /\ WebhookIdle
    /\ ViewInit
    /\ OncallInit
    /\ FormatIdle
    /\ CommandInit
    /\ WindowIdle
    /\ CronInit
    /\ ReplyInit
    /\ RaceGhostInit
    /\ LinkIdle
    /\ MineInit
    /\ PayloadIdle
    /\ SendIdle

Next == DigestNext /\ UNCHANGED <<cacheVars, webhookVars, viewVars, oncallVars, formatVars, commandVars, windowVars, cronVars, replyVars, raceVars, linkVars, mineVars, payloadVars, sendVars>>

Spec == Init /\ [][Next]_vars

InitCache ==
    /\ DigestIdle
    /\ CacheInit({"A"})
    /\ WebhookIdle
    /\ ViewInit
    /\ OncallInit
    /\ FormatIdle
    /\ CommandInit
    /\ WindowIdle
    /\ CronInit
    /\ ReplyInit
    /\ RaceGhostInit
    /\ LinkIdle
    /\ MineInit
    /\ PayloadIdle
    /\ SendIdle

NextCache == CacheNext /\ UNCHANGED <<digestVars, webhookVars, viewVars, oncallVars, formatVars, commandVars, windowVars, cronVars, replyVars, raceVars, linkVars, mineVars, payloadVars, sendVars>>

SpecCache == InitCache /\ [][NextCache]_vars

InitWebhook ==
    /\ DigestIdle
    /\ CacheInit({"A"})
    /\ WebhookInit
    /\ ViewInit
    /\ OncallInit
    /\ FormatIdle
    /\ CommandInit
    /\ WindowIdle
    /\ CronInit
    /\ ReplyInit
    /\ RaceGhostInit
    /\ LinkIdle
    /\ MineInit
    /\ PayloadIdle
    /\ SendIdle

NextWebhook == WebhookNext /\ UNCHANGED <<digestVars, cacheVars, viewVars, oncallVars, formatVars, commandVars, windowVars, cronVars, replyVars, raceVars, linkVars, mineVars, payloadVars, sendVars>>

SpecWebhook == InitWebhook /\ [][NextWebhook]_vars

InitViews ==
    /\ DigestIdle
    /\ CacheInit({"A"})
    /\ WebhookIdle
    /\ ViewInit
    /\ OncallInit
    /\ FormatIdle
    /\ CommandInit
    /\ WindowIdle
    /\ CronInit
    /\ ReplyInit
    /\ RaceGhostInit
    /\ LinkIdle
    /\ MineInit
    /\ PayloadIdle
    /\ SendIdle

NextViews == ViewNext /\ UNCHANGED <<digestVars, cacheVars, webhookVars, oncallVars, formatVars, commandVars, windowVars, cronVars, replyVars, raceVars, linkVars, mineVars, payloadVars, sendVars>>

SpecViews == InitViews /\ [][NextViews]_vars

InitOncall ==
    /\ DigestIdle
    /\ CacheInit({"A"})
    /\ WebhookIdle
    /\ ViewInit
    /\ OncallInit
    /\ FormatIdle
    /\ CommandInit
    /\ WindowIdle
    /\ CronInit
    /\ ReplyInit
    /\ RaceGhostInit
    /\ LinkIdle
    /\ MineInit
    /\ PayloadIdle
    /\ SendIdle

NextOncall == OncallNext /\ UNCHANGED <<digestVars, cacheVars, webhookVars, viewVars, formatVars, commandVars, windowVars, cronVars, replyVars, raceVars, linkVars, mineVars, payloadVars, sendVars>>

SpecOncall == InitOncall /\ [][NextOncall]_vars

InitFormat ==
    /\ DigestIdle
    /\ CacheInit({"A"})
    /\ WebhookIdle
    /\ ViewInit
    /\ OncallInit
    /\ FormatInit
    /\ CommandInit
    /\ WindowIdle
    /\ CronInit
    /\ ReplyInit
    /\ RaceGhostInit
    /\ LinkIdle
    /\ MineInit
    /\ PayloadIdle
    /\ SendIdle

NextFormat == FormatNext /\ UNCHANGED <<digestVars, cacheVars, webhookVars, viewVars, oncallVars, commandVars, windowVars, cronVars, replyVars, raceVars, linkVars, mineVars, payloadVars, sendVars>>

SpecFormat == InitFormat /\ [][NextFormat]_vars

InitWindow ==
    /\ DigestIdle
    /\ CacheInit({"A"})
    /\ WebhookIdle
    /\ ViewInit
    /\ OncallInit
    /\ FormatIdle
    /\ CommandInit
    /\ WindowInit
    /\ CronInit
    /\ ReplyInit
    /\ RaceGhostInit
    /\ LinkIdle
    /\ MineInit
    /\ PayloadIdle
    /\ SendIdle

NextWindow == WindowNext /\ UNCHANGED <<digestVars, cacheVars, webhookVars, viewVars, oncallVars, formatVars, commandVars, cronVars, replyVars, raceVars, linkVars, mineVars, payloadVars, sendVars>>

SpecWindow == InitWindow /\ [][NextWindow]_vars

InitCron ==
    /\ DigestIdle
    /\ CacheInit({"A"})
    /\ WebhookIdle
    /\ ViewInit
    /\ OncallInit
    /\ FormatIdle
    /\ CommandInit
    /\ WindowIdle
    /\ CronInit
    /\ ReplyInit
    /\ RaceGhostInit
    /\ LinkIdle
    /\ MineInit
    /\ PayloadIdle
    /\ SendIdle

NextCron == CronNext /\ UNCHANGED <<digestVars, cacheVars, webhookVars, viewVars, oncallVars, formatVars, commandVars, windowVars, replyVars, raceVars, linkVars, mineVars, payloadVars, sendVars>>

SpecCron == InitCron /\ [][NextCron]_vars

InitCommand ==
    /\ DigestInit
    /\ CacheInit({"A"})
    /\ WebhookIdle
    /\ ViewInit
    /\ OncallInit
    /\ FormatIdle
    /\ CommandInit
    /\ WindowIdle
    /\ CronInit
    /\ ReplyInit
    /\ RaceGhostInit
    /\ LinkIdle
    /\ MineInit
    /\ PayloadIdle
    /\ SendIdle

NextCommand == CommandNext /\ UNCHANGED <<cacheVars, webhookVars, viewVars, oncallVars, formatVars, windowVars, cronVars, replyVars, raceVars, linkVars, mineVars, payloadVars, sendVars>>

SpecCommand == InitCommand /\ [][NextCommand]_vars

InitReply ==
    /\ DigestIdle
    /\ CacheInit({"A"})
    /\ WebhookIdle
    /\ ViewInit
    /\ OncallInit
    /\ FormatIdle
    /\ CommandInit
    /\ WindowIdle
    /\ CronInit
    /\ ReplyInit
    /\ RaceGhostInit
    /\ LinkIdle
    /\ MineInit
    /\ PayloadIdle
    /\ SendIdle

NextReply == ReplyNext /\ UNCHANGED <<digestVars, cacheVars, webhookVars, viewVars, oncallVars, formatVars, commandVars, windowVars, cronVars, raceVars, linkVars, mineVars, payloadVars, sendVars>>

SpecReply == InitReply /\ [][NextReply]_vars

InitRace ==
    /\ DigestIdle
    /\ CacheInit({"A", "B"})
    /\ WebhookIdle
    /\ ViewInit
    /\ OncallInit
    /\ FormatIdle
    /\ CommandInit
    /\ WindowIdle
    /\ CronInit
    /\ ReplyInit
    /\ RaceGhostInit
    /\ LinkIdle
    /\ MineInit
    /\ PayloadIdle
    /\ SendIdle

NextRace == RaceNext /\ UNCHANGED <<digestVars, webhookVars, viewVars, oncallVars, formatVars, commandVars, windowVars, cronVars, replyVars, linkVars, mineVars, payloadVars, sendVars>>

SpecRace == InitRace /\ [][NextRace]_vars

InitLink ==
    /\ DigestIdle
    /\ CacheInit({"A"})
    /\ WebhookIdle
    /\ ViewInit
    /\ OncallInit
    /\ FormatIdle
    /\ CommandInit
    /\ WindowIdle
    /\ CronInit
    /\ ReplyInit
    /\ RaceGhostInit
    /\ LinkInit
    /\ MineInit
    /\ PayloadIdle
    /\ SendIdle

NextLink == LinkNext /\ UNCHANGED <<digestVars, cacheVars, webhookVars, viewVars, oncallVars, formatVars, commandVars, windowVars, cronVars, replyVars, raceVars, mineVars, payloadVars, sendVars>>

SpecLink == InitLink /\ [][NextLink]_vars

InitMine ==
    /\ DigestIdle
    /\ CacheInit({"A"})
    /\ WebhookIdle
    /\ ViewInit
    /\ OncallInit
    /\ FormatIdle
    /\ CommandInit
    /\ WindowIdle
    /\ CronInit
    /\ ReplyInit
    /\ RaceGhostInit
    /\ LinkIdle
    /\ MineInit
    /\ PayloadIdle
    /\ SendIdle

NextMine == MineNext /\ UNCHANGED <<digestVars, cacheVars, webhookVars, viewVars, oncallVars, formatVars, commandVars, windowVars, cronVars, replyVars, raceVars, linkVars, payloadVars, sendVars>>

SpecMine == InitMine /\ [][NextMine]_vars

InitPayload ==
    /\ DigestIdle
    /\ CacheInit({"A"})
    /\ WebhookIdle
    /\ ViewInit
    /\ OncallInit
    /\ FormatIdle
    /\ CommandInit
    /\ WindowIdle
    /\ CronInit
    /\ ReplyInit
    /\ RaceGhostInit
    /\ LinkIdle
    /\ MineInit
    /\ PayloadInit
    /\ SendIdle

NextPayload == PayloadNext /\ UNCHANGED <<digestVars, cacheVars, webhookVars, viewVars, oncallVars, formatVars, commandVars, windowVars, cronVars, replyVars, raceVars, linkVars, mineVars, sendVars>>

SpecPayload == InitPayload /\ [][NextPayload]_vars

InitSend ==
    /\ DigestIdle
    /\ CacheInit({"A"})
    /\ WebhookIdle
    /\ ViewInit
    /\ OncallInit
    /\ FormatIdle
    /\ CommandInit
    /\ WindowIdle
    /\ CronInit
    /\ ReplyInit
    /\ RaceGhostInit
    /\ LinkIdle
    /\ MineInit
    /\ PayloadIdle
    /\ SendInit

NextSend == SendNext /\ UNCHANGED <<digestVars, cacheVars, webhookVars, viewVars, oncallVars, formatVars, commandVars, windowVars, cronVars, replyVars, raceVars, linkVars, mineVars, payloadVars>>

SpecSend == InitSend /\ [][NextSend]_vars

(***************************************************************************)
(* Properties of the check command and the digest builders (Spec)          *)
(***************************************************************************)
\* the call of getUnrespondedIssues of the running command has returned
UnrespondedReturned == opts.op = "unresponded" /\ newRes.st = "ok"

\* C1: for every list the helpdesk fetch returned, getUnrespondedIssues returns
\* exactly the tickets in state "new" whose first_response_time is null or absent:
\* a "new" ticket with a first response time is excluded, a "new" ticket without
\* one is included, a ticket in any other state is excluded, and nothing is
\* returned that the fetch did not return.
C1_UnrespondedFilter ==
    UnrespondedReturned =>
        /\ \A i \in DOMAIN newRes.raw :
              LET tk == newRes.raw[i]
                  included == tk \in Range(newRes.issues)
              IN  /\ (tk.state = "new" /\ tk.first_response_time = "t1") => ~included
                  /\ (tk.state = "new" /\ tk.first_response_time \in {"null", "absent"}) => included
                  /\ tk.state # "new" => ~included
        /\ Range(newRes.issues) \subseteq Range(newRes.raw)
        /\ Len(newRes.issues) = Cardinality(Range(newRes.issues))

\* C1 witness: the fetch returned a "new" ticket with a first response time and a
\* "new" ticket whose first_response_time is absent; only the second is returned
C1_Witness ==
    /\ UnrespondedReturned
    /\ \E i, j \in DOMAIN newRes.raw :
          /\ newRes.raw[i].state = "new" /\ newRes.raw[i].first_response_time = "t1"
          /\ newRes.raw[j].state = "new" /\ newRes.raw[j].first_response_time = "absent"
          /\ newRes.issues = <<newRes.raw[j]>>

\* a text with at least one issue line
HasIssueLine(text) == \E i \in DOMAIN text : text[i].k = "line"

\* C7: a get* digest builder returns null when its filtered ticket list is empty,
\* never an empty or header-only string, and a non-empty text with issue lines
\* otherwise; the handler responds with the digest only when it is non-null and
\* with the fixed "no issues found" reply otherwise.
C7_EmptyResultLaw ==
    (result = "value") =>
        LET empty == Len(newRes.issues) = 0 /\ Len(openRes.issues) = 0
            last == replies[Len(replies)]
        IN  /\ empty => message = Null
            /\ ~empty => (~message.isNull /\ message.text # <<>> /\ HasIssueLine(message.text))
            /\ ~message.isNull => last = Reply("digest", message.text)
            /\ message.isNull => last = NoIssuesReply
            /\ \A i \in DOMAIN replies :
                  replies[i].kind = "digest" => (i = Len(replies) /\ ~message.isNull)

\* C7 witness: the helpdesk returned tickets, none passed the filter, the builder
\* returned null and the handler replied "no issues found"
C7_Witness ==
    /\ result = "value"
    /\ message = Null
    /\ newRes.raw # <<>>
    /\ newRes.issues = <<>> /\ openRes.issues = <<>>
    /\ replies[Len(replies)].kind \in {"noIssuesFound", "noUnrespondedFound"}

\* C10: in one check digest no ticket is listed in more than one section, given
\* that getNewIssues and getOpenNonNewIssues each fetch the ticket list and that
\* ticket states may change between the two fetches.
C10_SectionsDisjoint ==
    (opts.op = "check" /\ ~message.isNull) =>
        \A i, j \in DOMAIN message.text :
            (i # j /\ message.text[i].k = "line" /\ message.text[j].k = "line")
                => message.text[i].id # message.text[j].id

(***************************************************************************)
(* Properties of the identity caches and batch resolutions (SpecCache)     *)
(***************************************************************************)
\* C4: each identity cache holds for a key only a value that a successful
\* upstream lookup returned for that key; a lookup that fails or whose response
\* lacks the name / email field leaves the cache without an entry for the key.
C4_OnlyPositiveResolutions ==
    \A kd \in Kinds, k \in AllKeys :
        cache[kd][k] # NoVal => cache[kd][k] \in answered[kd][k]

\* a request for key k of cache kd is outstanding
LookupInFlight(kd, k) ==
    \E f \in DOMAIN flow :
        /\ flow[f].phase = "waiting"
        /\ KindOf(flow[f].op, flow[f].hop) = kd
        /\ \E i \in flow[f].inflight : flow[f].key[i] = k

\* flow f starts a hop in this step
StartsHop(f) ==
    /\ flow'[f].phase \in {"waiting", "returned"}
    /\ flow[f].phase = "idle" \/ flow[f].hop # flow'[f].hop

\* C5: once a lookup for an id has succeeded and nothing is outstanding for it,
\* every later resolution of the id returns the cached value without a network
\* call, and no step removes or replaces the cached entry: resolving the same id
\* twice, one resolution after the other, issues exactly one network call.
C5_CachedStep ==
    \A kd \in Kinds, k \in AllKeys :
        (cache[kd][k] # NoVal /\ ~LookupInFlight(kd, k)) =>
            /\ cache'[kd][k] = cache[kd][k]
            /\ calls'[kd][k] = calls[kd][k]
            /\ \A f \in DOMAIN flow, i \in Ids :
                  (StartsHop(f) /\ i \in flow'[f].ids
                      /\ KindOf(flow'[f].op, flow'[f].hop) = kd /\ flow'[f].key[i] = k)
                  => (i \notin flow'[f].inflight /\ flow'[f].map[i] = cache[kd][k])

C5_CacheIdempotence == [][C5_CachedStep]_vars

\* C5 witness: a second resolution of an id has returned the cached email, and
\* the id has had exactly one network call
C5_Witness ==
    \E f \in DOMAIN flow, i \in Ids :
        /\ flow[f].phase = "returned"
        /\ flow[f].op = "emails"
        /\ i \in flow[f].ids
        /\ flow[f].out[i][1] = "hit"
        /\ flow[f].map[i] = cache["pylonUser"][i]
        /\ flow[f].map[i] \in Names
        /\ calls["pylonUser"][i] = 1

\* the four batch resolutions that return a map of resolved ids
MapOps == {"accounts", "emails", "channels", "slackIds"}

\* the lookup of item i at hop h was a cache hit or succeeded
HopSucceeded(fl, i, h) == fl.out[i][h] \in {"hit", "ok"}

\* every lookup the batch made for item i succeeded (both hops of the chain)
ItemSucceeded(fl, i) ==
    /\ i \in fl.ids
    /\ HopSucceeded(fl, i, 1)
    /\ fl.op = "slackIds" => HopSucceeded(fl, i, 2)

\* C6: a batch resolution never throws because a single lookup failed; for every
\* set of ids and every pattern of per-id failures (non-2xx, thrown error,
\* response without the field) the returned map holds exactly the ids whose
\* lookup succeeded or hit the cache.
C6_BatchNeverThrows ==
    \A f \in DOMAIN flow :
        /\ flow[f].phase # "threw"
        /\ (flow[f].phase = "waiting") => flow[f].inflight # {}
        /\ (flow[f].phase = "returned" /\ flow[f].op \in MapOps) =>
              \A i \in Ids : (flow[f].map[i] # NoVal) <=> ItemSucceeded(flow[f], i)

\* C6 witness: a batch over two ids has returned; one lookup succeeded, the other
\* failed, and the map holds the first id only
C6_Witness ==
    \E f \in DOMAIN flow, i, j \in Ids :
        /\ flow[f].phase = "returned"
        /\ flow[f].op \in MapOps
        /\ {i, j} \subseteq flow[f].ids
        /\ flow[f].out[i][1] = "ok"
        /\ flow[f].out[j][1] \in {"non2xx", "throw", "nofield"}
        /\ flow[f].map[i] # NoVal
        /\ flow[f].map[j] = NoVal

(***************************************************************************)
(* Properties of the webhook handler (SpecWebhook)                         *)
(***************************************************************************)
\* the request lacks the signature header, the timestamp header or the raw body
LacksAuthInput ==
    \/ req.signature.len = 0
    \/ ~req.timestamp.present \/ req.timestamp.s = <<>>
    \/ ~req.rawBody.present \/ req.rawBody.s = <<>>

\* the signature is HMAC-SHA256(secret, timestamp + "." + rawBody), hex encoded
SignatureMatches ==
    req.signature = [len |-> HexDigestLen, key |-> PylonSecret,
                     msg |-> req.timestamp.s \o <<".">> \o req.rawBody.s]

\* C2: a request whose signature does not match HMAC-SHA256(secret,
\* timestamp + "." + rawBody), a signature of another length included, or that
\* lacks the signature, the timestamp or the raw body, is answered 401 and no
\* downstream call is ever started for it; a request with a valid signature is
\* answered 200 before the first downstream call is issued.
C2_SignatureGate ==
    (rev = "hmac") =>
        /\ (LacksAuthInput \/ ~SignatureMatches) =>
              /\ downstream = <<>>
              /\ wpc \in {"recv", "done"}
              /\ (wpc = "done") => responses = <<401>>
        /\ (~LacksAuthInput /\ SignatureMatches) => (wpc # "recv" => responses = <<200>>)
        /\ (downstream # <<>>) => responses = <<200>>

\* C2 witness: a request with timestamp and body whose signature has the right
\* length but is the digest of something else has been answered 401
C2_Witness ==
    /\ rev = "hmac"
    /\ ~LacksAuthInput
    /\ req.signature.len = HexDigestLen
    /\ ~SignatureMatches
    /\ wpc = "done"
    /\ responses = <<401>>
    /\ downstream = <<>>

\* the request carries valid credentials for the deployed revision
AuthenticRequest ==
    IF rev = "secret" THEN req.secret.present /\ req.secret.s = PylonSecret
    ELSE ~LacksAuthInput /\ SignatureMatches

\* C3: for an authenticated request exactly one response is sent and it is 200,
\* whatever happens afterwards: a failure of the hydration fetch, the triage post,
\* the routing reply or the cross-link post is caught and logged, never changes
\* or repeats the response and never rejects the handler's promise.
C3_SingleResponse ==
    AuthenticRequest =>
        /\ (wpc # "recv") => responses = <<200>>
        /\ ~rejected
        /\ logged \in {0, 1}
        /\ (logged = 1) => wpc = "done"

\* C3 witness: the cross-link post of an authenticated request failed; the error
\* was logged and the single response is the 200
C3_Witness ==
    /\ AuthenticRequest
    /\ wpc = "done"
    /\ downstream # <<>>
    /\ downstream[Len(downstream)] = "crossLink"
    /\ logged = 1
    /\ ~rejected
    /\ responses = <<200>>

\* fetchIssueById returned an issue and the handler merged it
Hydrated == rev = "secret" /\ fullIssue.t = "obj"

\* the two values are the same, null and undefined both counting as no value
SameValue(a, b) == a = b \/ (a.t \in {"null", "undef"} /\ b.t \in {"null", "undef"})

HasTemplateSyntax(s) ==
    \E i \in 1..Len(s), j \in 1..Len(s) :
        /\ i + 3 <= j
        /\ SubSeq(s, i, i + 1) = <<"{", "{">>
        /\ SubSeq(s, j - 1, j) = <<"}", "}">>
        /\ "\n" \notin Range(SubSeq(s, i + 2, j - 2))

RECURSIVE NoTemplateLeaf(_)
\* no string at any depth of the value has template syntax
NoTemplateLeaf(v) ==
    CASE v.t = "str" -> ~HasTemplateSyntax(v.s)
      [] v.t = "obj" -> \A k \in DOMAIN v.o : NoTemplateLeaf(v.o[k])
      [] OTHER -> TRUE

RECURSIVE FieldsKept(_, _)
\* at every depth of raw: a string field with template syntax is gone from out, and
\* every other field that is no object is in out with its value
FieldsKept(raw, out) ==
    \A k \in DOMAIN raw.o :
        LET v == raw.o[k]
        IN  CASE v.t = "str" -> IF HasTemplateSyntax(v.s) THEN Prop(out, k) = JUndef
                                ELSE Prop(out, k) = v
              [] v.t = "obj" -> FieldsKept(v, Prop(out, k))
              [] OTHER -> Prop(out, k) = v

FetchedIssues == IF fetchResponse.hasData THEN fetchResponse.data ELSE <<>>

\* the list is a sub-list of the fetched list, in fetch order (ids are positions)
InFetchOrder(list) ==
    /\ Range(list) \subseteq Range(FetchedIssues)
    /\ \A a, b \in DOMAIN list : a < b => list[a].id < list[b].id

\* C11: for every fetched list the "new" view returns exactly the tickets in state
\* "new" and the "waiting on responder" view exactly the tickets in state
\* "waiting_on_you", each in fetch order; a ticket in any other state is in
\* neither view.
C11_StateViews ==
    (viewPc = "returned" /\ viewCall.view \in {"getNewIssues", "getOpenNonNewIssues"}) =>
        LET want == IF viewCall.view = "getNewIssues" THEN "new" ELSE "waiting_on_you"
        IN  /\ \A i \in DOMAIN FetchedIssues :
                  (FetchedIssues[i].state = want) <=> (FetchedIssues[i] \in Range(viewResult))
            /\ InFetchOrder(viewResult)

\* C11 witness: the fetch returned an on_hold ticket and a waiting_on_you ticket;
\* the "waiting on responder" view returned the second only
C11_Witness ==
    /\ viewPc = "returned"
    /\ viewCall.view = "getOpenNonNewIssues"
    /\ fetchResponse.hasData
    /\ \E i, j \in DOMAIN fetchResponse.data :
          /\ fetchResponse.data[i].state = "on_hold"
          /\ fetchResponse.data[j].state = "waiting_on_you"
          /\ viewResult = <<fetchResponse.data[j]>>

\* the same letter, in either case
SameLetter(c, e) ==
    \/ c = e
    \/ {c, e} = {"a", "A"}
    \/ {c, e} = {"b", "B"}

\* the two emails are equal ignoring letter case
EqualIgnoringCase(x, y) ==
    /\ Len(x) = Len(y)
    /\ \A i \in DOMAIN x : SameLetter(x[i], y[i])

\* C12: getMyIssues returns exactly the fetched tickets in state "new" or
\* "waiting_on_you" that have an assignee id whose email was resolved and equals
\* the target email ignoring case; a ticket whose assignee email could not be
\* resolved is excluded and raises no error.
C12_MyIssues ==
    (viewPc = "returned" /\ viewCall.view = "getMyIssues") =>
        /\ \A i \in DOMAIN FetchedIssues :
              LET tk == FetchedIssues[i]
              IN  (tk \in Range(viewResult)) <=>
                      /\ tk.state \in {"new", "waiting_on_you"}
                      /\ tk.assignee # NoAssignee
                      /\ emailMap[tk.assignee] # NoEmail
                      /\ EqualIgnoringCase(emailMap[tk.assignee], viewCall.email)
        /\ InFetchOrder(viewResult)
        /\ viewError = NoError

\* C12 witness: the target is "a"; ticket 1's assignee resolves to "A" and ticket
\* 2's assignee cannot be resolved; getMyIssues returned ticket 1 only
C12_Witness ==
    /\ viewPc = "returned"
    /\ viewCall = ViewCall("getMyIssues", <<"a">>)
    /\ fetchResponse.hasData
    /\ \A i \in DOMAIN fetchResponse.data : fetchResponse.data[i].state \in {"new", "waiting_on_you"}
    /\ \E x, y \in AssigneeIds :
          /\ fetchResponse.data[1].assignee = x /\ emailMap[x] = <<"A">>
          /\ fetchResponse.data[2].assignee = y /\ emailMap[y] = NoEmail
    /\ viewResult = <<fetchResponse.data[1]>>

\* C14: fetchIssues sends one request and never retries; on a response that is not
\* 2xx the view's caller gets an error carrying the status and the response body;
\* on a 2xx response without a data list the view returns an empty list.
C14_FetchErrors ==
    /\ fetchCount = (IF viewPc = "idle" THEN 0 ELSE 1)
    /\ (viewPc \notin {"idle", "fetching"}) =>
          IF fetchResponse.status \in 200..299
          THEN /\ viewPc # "threw"
               /\ viewError = NoError
               /\ (viewPc = "returned" /\ ~fetchResponse.hasData) => viewResult = <<>>
          ELSE /\ viewPc = "threw"
               /\ viewError.status = fetchResponse.status
               /\ viewError.body = fetchResponse.text

\* C14 witness: getMyIssues' fetch was answered 500 with a body; the call rejected
\* with that status and body after one request
C14_Witness ==
    /\ viewPc = "threw"
    /\ viewCall.view = "getMyIssues"
    /\ fetchResponse.status = 500
    /\ fetchResponse.text # <<>>
    /\ viewError = [status |-> 500, body |-> fetchResponse.text]
    /\ fetchCount = 1

(***************************************************************************)
(* Properties of the on-call resolver (SpecOncall)                         *)
(***************************************************************************)
\* C13: getAllOncallEngineers always returns a list without duplicates and never
\* throws because one schedule's resolution failed: a schedule answered with a
\* non-2xx status, with no entry or with an entry without chat user id is left
\* out, and the responders of the other schedules are still returned.
C13_OncallAlwaysList ==
    /\ oncallPc # "threw"
    /\ (oncallPc = "waiting") => \E sc \in Range(Schedules) : results[sc] = Pending
    /\ (oncallPc = "returned") =>
          /\ \A a, b \in DOMAIN uniqueIds : a # b => uniqueIds[a] # uniqueIds[b]
          /\ Range(uniqueIds) = {results[sc].id : sc \in {x \in Range(Schedules) : results[x].kind = "id"}}

(***************************************************************************)
(* Properties of the formatted ticket line (SpecFormat)                    *)
(***************************************************************************)
\* the text after the "@" of an email that has one; <<>> when there is none
AfterAt(email) ==
    IF \E i \in DOMAIN email : email[i] = "@"
    THEN LET at == CHOOSE i \in DOMAIN email : email[i] = "@"
         IN  [k \in 1..(Len(email) - at) |-> email[at + k]]
    ELSE <<>>

AccountAvailable == fmtIssue.account # NoRef /\ fmtIssue.account \in DOMAIN options.accountNames

ChannelAvailable == fmtIssue.channel # NoRef /\ fmtIssue.channel \in DOMAIN options.channelNames

DomainAvailable == AfterAt(fmtIssue.requester) # <<>>

\* C15: in a formatted line the customer identifier is the account name when
\* the issue's account id is in the account-name map; else "#" and the channel
\* name when its origin channel id is in the channel-name map; else the part of
\* the requester email after "@"; else it is omitted.
C15_IdentifierPriority ==
    fmtPc = "formatted" =>
        /\ AccountAvailable =>
               line.identifier = [isNull |-> FALSE, text |-> options.accountNames[fmtIssue.account]]
        /\ ~AccountAvailable /\ ChannelAvailable =>
               line.identifier = [isNull |-> FALSE,
                                  text |-> <<"#">> \o options.channelNames[fmtIssue.channel]]
        /\ ~AccountAvailable /\ ~ChannelAvailable /\ DomainAvailable =>
               line.identifier = [isNull |-> FALSE, text |-> AfterAt(fmtIssue.requester)]
        /\ ~AccountAvailable /\ ~ChannelAvailable /\ ~DomainAvailable =>
               line.identifier.isNull

\* a line whose issue has all three sources available
C15_Witness ==
    /\ fmtPc = "formatted"
    /\ AccountAvailable /\ ChannelAvailable /\ DomainAvailable
    /\ line.identifier.text = options.accountNames[fmtIssue.account]

\* the email hop succeeded for the issue's assignee
EmailHopSucceeded ==
    /\ fmtIssue.assignee # NoAssignee
    /\ lookups.email[fmtIssue.assignee] # NoEmail

\* both hops succeeded and the second returned chat id c
BothHopsReturn(c) ==
    /\ EmailHopSucceeded
    /\ lookups.slackId[lookups.email[fmtIssue.assignee]] = c

\* C16: a formatted line mentions chat id C exactly when the issue has an
\* assignee whose email lookup succeeded and whose chat-user-by-email lookup
\* for that email returned C; when either hop fails the line has no mention,
\* and the line is still formatted.
C16_MentionIffBothHops ==
    /\ fmtPc = "formatted" =>
           /\ \A c \in ChatIds : (line.mention = c) <=> BothHopsReturn(c)
           /\ (~\E c \in ChatIds : BothHopsReturn(c)) => line.mention = NoSlackId
    /\ fmtPc = "resolved" => ENABLED FormatLine

\* a line formatted for an assignee whose email hop succeeded and whose chat
\* lookup failed, while the other assignee's email resolves to a chat user
C16_Witness ==
    /\ fmtPc = "formatted"
    /\ EmailHopSucceeded
    /\ lookups.slackId[lookups.email[fmtIssue.assignee]] = NoSlackId
    /\ \E e \in AssigneeEmails : lookups.slackId[e] # NoSlackId
    /\ line.mention = NoSlackId

(***************************************************************************)
(* Properties of the check command's flags (SpecCommand)                   *)
(***************************************************************************)
\* every text the command has produced: the built message, replies, posts
CommandTexts ==
    {message.text} \cup {replies[i].text : i \in DOMAIN replies}
        \cup {posted[i] : i \in DOMAIN posted}

HasSection(text, label) ==
    \E i \in DOMAIN text : text[i].k = "section" /\ text[i].label = label

HasMention(text) == \E i \in DOMAIN text : text[i].k = "mention"

\* the sections the flags ask for, case by case
WantNew ==
    \/ ~args.filterNew /\ ~args.filterOpen
    \/ args.filterNew /\ ~args.filterOpen
    \/ args.filterNew /\ args.filterOpen

WantOpen ==
    \/ ~args.filterNew /\ ~args.filterOpen
    \/ ~args.filterNew /\ args.filterOpen
    \/ args.filterNew /\ args.filterOpen

\* the command completed with a digest (returned or posted)
DigestDelivered == pc = "done" /\ result \in {"value", "true"} /\ Truthy(message)

\* C17: neither --new nor --open asks for both sections, --new alone for "new",
\* --open alone for "waiting on you", both flags for both; a section that was
\* not asked for is never fetched and never appears in any text, and a section
\* that was asked for is fetched and appears when the fetch returned a ticket
\* of its state.
C17_RequestedSections ==
    args.op = "check" =>
        /\ ~WantNew => /\ newRes.st \notin {"pending", "err"}
                       /\ newRes.raw = <<>>
                       /\ \A t \in CommandTexts : ~HasSection(t, "new issues")
        /\ ~WantOpen => /\ openRes.st \notin {"pending", "err"}
                        /\ openRes.raw = <<>>
                        /\ \A t \in CommandTexts : ~HasSection(t, "waiting on you")
        /\ pc = "fetch" => \/ WantNew /\ newRes.st = "pending"
                           \/ WantOpen /\ openRes.st = "pending"
        /\ DigestDelivered =>
               /\ HasSection(message.text, "new issues") <=>
                      (WantNew /\ \E i \in DOMAIN newRes.raw : newRes.raw[i].state = "new")
               /\ HasSection(message.text, "waiting on you") <=>
                      (WantOpen /\ \E i \in DOMAIN openRes.raw :
                                       openRes.raw[i].state = "waiting_on_you")

\* --open alone, with a new ticket upstream: the digest has only "waiting on you"
C17_Witness ==
    /\ args.op = "check" /\ ~args.filterNew /\ args.filterOpen
    /\ \E t \in Tickets : upstream[t].state = "new"
    /\ DigestDelivered
    /\ HasSection(message.text, "waiting on you")
    /\ ~HasSection(message.text, "new issues")

\* the last reply is the digest
DigestReplied ==
    /\ replies # <<>>
    /\ replies[Len(replies)] = [kind |-> "digest", text |-> message.text]

NoDigestReply == \A i \in DOMAIN replies : replies[i].kind # "digest"

\* the message is built with the on-call lookup exactly under --remind
TaggingStep ==
    (args.op = "check" /\ pc # "post" /\ pc' = "post") => (pc = "oncall" <=> args.remind)

\* what the flags --channel and --remind allow, case by case
FlagsRouting ==
    args.op = "check" =>
        /\ args.remind =>
               /\ NoDigestReply
               /\ result # "value"
               /\ DigestDelivered => posted = <<message.text>>
        /\ args.channel /\ ~args.remind =>
               /\ NoDigestReply
               /\ result # "value"
               /\ pc # "oncall"
               /\ \A t \in CommandTexts : ~HasMention(t)
               /\ DigestDelivered => posted = <<message.text>>
        /\ ~args.channel /\ ~args.remind =>
               /\ posted = <<>>
               /\ pc \notin {"channel", "oncall", "post"}
               /\ result \notin {"true", "false"}
               /\ \A t \in CommandTexts : ~HasMention(t)
               /\ DigestDelivered => DigestReplied

\* C18: --remind implies --channel: with --remind the digest is posted to the
\* channel with the on-call lookup, even without --channel; with --channel
\* alone it is posted without on-call mentions; with neither flag nothing is
\* posted and the digest comes back only in the private response.
C18_RemindImpliesChannel == []FlagsRouting /\ [][TaggingStep]_vars

\* --remind without --channel: the digest was posted with an on-call mention
C18_Witness ==
    /\ args.op = "check" /\ args.remind /\ ~args.channel
    /\ DigestDelivered
    /\ posted = <<message.text>>
    /\ HasMention(posted[1])

(***************************************************************************)
(* Properties of the day count and the query window (SpecWindow)           *)
(***************************************************************************)
OnlyDigits(token) ==
    /\ token # <<>>
    /\ \A i \in DOMAIN token : token[i] \in {"0", "1", "2", "3", "4", "5", "6", "7", "8", "9"}

RECURSIVE Decimal(_)
Decimal(token) ==
    IF token = <<>> THEN 0
    ELSE 10 * Decimal([i \in 1..(Len(token) - 1) |-> token[i]])
         + (CHOOSE v \in 0..9 : <<"0", "1", "2", "3", "4", "5", "6", "7", "8", "9">>[v + 1]
                                    = token[Len(token)])

\* the day count the claim asks for
ClaimedDays ==
    IF \E i \in DOMAIN cmdArgs : OnlyDigits(cmdArgs[i])
    THEN LET first == CHOOSE i \in DOMAIN cmdArgs :
                          OnlyDigits(cmdArgs[i]) /\ \A j \in 1..(i - 1) : ~OnlyDigits(cmdArgs[j])
             n == Decimal(cmdArgs[first])
         IN  IF n < 1 THEN 1 ELSE n
    ELSE 1

\* C19: the day count is the first all-digit token after the subcommand,
\* clamped to at least 1, and 1 without such a token; the query window is
\* [startOfToday - (days-1)*24h, startOfToday + 24h), is days*24h long and
\* contains the current instant.
C19_DaysAndWindow ==
    /\ winPc \in {"parsed", "queried"} => days = ClaimedDays
    /\ winPc = "queried" =>
           /\ window.start = 0 - (days - 1) * 24
           /\ window.end = 0 + 24
           /\ window.end - window.start = days * 24
           /\ window.start <= now /\ now < window.end

(***************************************************************************)
(* Properties of the scheduled runs (SpecCron)                             *)
(***************************************************************************)
\* some run raised an error at the given step
RaisedAt(step) == \E i \in DOMAIN thrown : thrown[i][2] = step

\* C20: every error raised inside a scheduled run, at any of its steps, is
\* caught by the handler and logged; none escapes the handler, and later
\* scheduled runs and commands can still execute.
C20_CronErrorsCaught ==
    /\ ~crashed
    /\ cronLog = thrown
    /\ (cronPc = "idle" /\ runs < MaxRuns) => \A h \in Handlers : ENABLED CronFires(h)
    /\ served < MaxRuns => ENABLED StatusCommand

\* after an error at the channel lookup of one run, a later run posted its digest
C20_Witness ==
    /\ RaisedAt("channel")
    /\ thrown[1][2] = "channel"
    /\ cronPosted > 0
    /\ served > 0

(***************************************************************************)
(* Properties of the check subcommand's error handling (SpecReply)          *)
(***************************************************************************)
Received(kind) == \E i \in DOMAIN rReplies : rReplies[i] = kind

\* C21: when a step of a check subcommand fails, the error is caught inside the
\* subcommand and the user receives the error reply, never a digest or a
\* "no issues found" reply, and the error does not escape the handler.
C21_FailuresReplied ==
    /\ ~rEscaped
    /\ (rFailed /\ rPc = "done") =>
           /\ Received("error")
           /\ ~Received("digest")
           /\ ~Received("noIssues")

(***************************************************************************)
(* Properties of two flows racing on the same miss (SpecRace)              *)
(***************************************************************************)
RaceKinds == {"account", "pylonUser"}

\* what holds in every state of a race
RaceState ==
    /\ \A f \in RaceFlows, i \in Ids : issued[f][i] <= 1
    /\ \A f \in RaceFlows, i \in Ids :
           (flow[f].phase = "returned" /\ flow[f].map[i] # NoVal) =>
               \E kd \in RaceKinds : flow[f].map[i] \in answered[kd][i]
    /\ \A kd \in RaceKinds, k \in Ids : cache[kd][k] = lastOk[kd][k]

\* an entry, once written, is never erased
EntryKept == \A kd \in RaceKinds, k \in Ids : cache[kd][k] # NoVal => cache'[kd][k] # NoVal

\* C22: when two flows resolve the same uncached id, each issues at most one
\* lookup for it, a flow that gets a value gets one upstream returned for the
\* id, the cache entry is the value of the last successful lookup, and a
\* failed lookup never erases or prevents the entry written by the other flow.
C22_RaceTolerated == []RaceState /\ [][EntryKept]_vars

\* both flows missed id 1 and looked it up; A's lookup failed, B's succeeded
C22_Witness ==
    /\ calls["account"][1] = 2
    /\ flow["A"].phase = "returned" /\ flow["A"].out[1][1] = "throw" /\ flow["A"].map[1] = NoVal
    /\ flow["B"].phase = "returned" /\ flow["B"].out[1][1] = "ok"
    /\ cache["account"][1] = flow["B"].map[1]
    /\ cache["account"][1] # NoVal

(***************************************************************************)
(* Properties of the cross-link notification (SpecWebhook)                 *)
(***************************************************************************)
CallsOf(name) == {i \in DOMAIN downstream : downstream[i] = name}

\* a non-empty string under the key of the issue's slack object
SlackField(is, key) ==
    /\ is.t = "obj" /\ "slack" \in DOMAIN is.o
    /\ is.o["slack"].t = "obj" /\ key \in DOMAIN is.o["slack"].o
    /\ is.o["slack"].o[key].t = "str" /\ is.o["slack"].o[key].s # <<>>

\* the issue carries an origin channel id and a message timestamp
CarriesOrigin(is) ==
    /\ SlackField(is, "channel_id")
    /\ SlackField(is, "message_ts") \/ SlackField(is, "thread_ts")

\* the step that issues the cross-link post
CrossLinkIssued == Len(downstream') = Len(downstream) + 1 /\ downstream'[Len(downstream')] = "crossLink"

\* the cross-link is issued when the triage post (or its routing reply) has
\* resolved, in a run without an error
CrossLinkStep ==
    CrossLinkIssued => /\ wpc \in {"triage", "routing"}
                       /\ logged = 0 /\ logged' = 0
                       /\ ~rejected'

CrossLinkState ==
    /\ Cardinality(CallsOf("crossLink")) <= 1
    /\ \A i \in CallsOf("crossLink") :
           /\ \E j \in CallsOf("triagePost") : j < i
           /\ CarriesOrigin(curIssue)
    /\ ~CarriesOrigin(curIssue) => CallsOf("crossLink") = {}
    /\ (wpc = "done" /\ logged > 0 /\ downstream # <<>>
            /\ downstream[Len(downstream)] = "triagePost") => CallsOf("crossLink") = {}

\* C23: the cross-link is posted at most once per webhook, only after the
\* triage message was posted successfully, and only if the (possibly hydrated)
\* issue carries an origin channel id and a message timestamp; without an
\* origin thread, or when the triage post fails, no cross-link is posted.
C23_CrossLinkOnce == []CrossLinkState /\ [][CrossLinkStep]_vars

\* the origin thread came with the hydration and the cross-link was posted
C23_Witness ==
    /\ wpc = "done" /\ logged = 0
    /\ ~CarriesOrigin(whIssue)
    /\ CarriesOrigin(curIssue)
    /\ Cardinality(CallsOf("crossLink")) = 1

(***************************************************************************)
(* Properties of the digest layout (Spec)                                  *)
(***************************************************************************)
SectionHeads(text) == {p \in DOMAIN text : text[p].k = "section"}

\* the lines that follow the section header at p, up to the next token that is no line
LinesOf(text, p) ==
    {q \in DOMAIN text : /\ q > p
                         /\ \A x \in (p + 1)..q : text[x].k = "line"}

\* the position of ticket id in the list a fetch returned
FetchPos(raw, id) == CHOOSE i \in DOMAIN raw : raw[i].id = id

\* the list fetched for the section with the given label
RawOf(label) == IF label = "new issues" THEN newRes.raw ELSE openRes.raw

SectionWellFormed(text, p) ==
    LET lines == LinesOf(text, p)
        raw == RawOf(text[p].label)
    IN  /\ text[p].n = Cardinality(lines)
        /\ Cardinality(lines) > 0
        /\ \A q \in lines : text[q].n = q - p
        /\ \A q \in lines : \E i \in DOMAIN raw : raw[i].id = text[q].id
        /\ \A q1, q2 \in lines :
               q1 < q2 => FetchPos(raw, text[q1].id) < FetchPos(raw, text[q2].id)

\* every line of the text belongs to a section
NoStrayLine(text) ==
    \A q \in DOMAIN text : text[q].k = "line" => \E p \in SectionHeads(text) : q \in LinesOf(text, p)

\* C24: in every digest section the lines are in fetch order and numbered
\* 1, 2, ... and the header's count is the number of lines; "new issues"
\* comes before "waiting on you", and each appears at most once.
C24_DigestLayout ==
    opts.op = "check" =>
        \A text \in CommandTexts :
            /\ \A p \in SectionHeads(text) : SectionWellFormed(text, p)
            /\ NoStrayLine(text)
            /\ \A p1, p2 \in SectionHeads(text) :
                   p1 < p2 => text[p1].label = "new issues" /\ text[p2].label = "waiting on you"

\* a delivered digest with two lines in its first section and a second section
C24_Witness ==
    /\ opts.op = "check" /\ DigestDelivered
    /\ \E p \in SectionHeads(message.text) : message.text[p].n = 2
    /\ Cardinality(SectionHeads(message.text)) = 2

(***************************************************************************)
(* Properties of the payload normalisation (SpecPayload)                   *)
(***************************************************************************)
ObjectValued(key) == key \in DOMAIN plPayload.o /\ plPayload.o[key].t = "obj"

\* the object the precedence of the claim chooses
Chosen ==
    IF ObjectValued("data") THEN plPayload.o["data"]
    ELSE IF ObjectValued("issue") THEN plPayload.o["issue"]
    ELSE plPayload

\* the strings of the chosen object's own fields
ChosenStrings == {Chosen.o[k].s : k \in {x \in DOMAIN Chosen.o : Chosen.o[x].t = "str"}}

\* C25: the issue is taken from an object-valued data key, else from an
\* object-valued issue key, else it is the payload itself; the triage context
\* is built from the fields of the chosen object only.
C25_PayloadPrecedence ==
    /\ plPc \in {"extracted", "built"} =>
           \A k \in {"title", "link", "data", "issue"} :
               (k \in DOMAIN plIssue.o) <=> (k \in DOMAIN Chosen.o)
    /\ plPc \in {"extracted", "built"} =>
           \A k \in DOMAIN plIssue.o \cap {"title", "link"} : plIssue.o[k] = Chosen.o[k]
    /\ plPc = "built" =>
           /\ \A i \in DOMAIN plContext : plContext[i].s \in ChosenStrings
           /\ \A k \in {"title", "link"} \cap DOMAIN Chosen.o :
                  \E i \in DOMAIN plContext : plContext[i].s = Chosen.o[k].s
           /\ Len(plContext) = Cardinality({"title", "link"} \cap DOMAIN Chosen.o)

\* data and issue both hold an issue and the payload has top-level fields:
\* the context is built from data
C25_Witness ==
    /\ plPc = "built"
    /\ ObjectValued("data") /\ ObjectValued("issue")
    /\ "title" \in DOMAIN plPayload.o
    /\ "title" \in DOMAIN plPayload.o["issue"].o
    /\ \E i \in DOMAIN plContext : plContext[i].s = <<"d">>

(***************************************************************************)
(* Properties of sendCheckMessage's result (Spec)                          *)
(***************************************************************************)
\* the command runs sendCheckMessage
SendingCheck == opts.op = "check" /\ opts.sendToChannel

BothListsEmpty ==
    /\ newRes.st = "ok" /\ openRes.st = "ok"
    /\ newRes.issues = <<>> /\ openRes.issues = <<>>

\* C26: sendCheckMessage returns true iff it posted exactly one message; it
\* returns false, with nothing posted, exactly when both lists are empty; and
\* when it throws nothing has been posted.
C26_SendResult ==
    SendingCheck =>
        /\ Len(posted) <= 1
        /\ (result = "true") <=> (Len(posted) = 1)
        /\ result = "false" => (posted = <<>> /\ BothListsEmpty)
        /\ (BothListsEmpty /\ pc # "fetch") => result = "false"
        /\ result = "threw" => posted = <<>>
        /\ result # "value"

\* sendCheckMessage returned true after posting the digest with a mention
C26_Witness ==
    /\ SendingCheck
    /\ result = "true"
    /\ Len(posted) = 1
    /\ HasMention(posted[1])

(***************************************************************************)
(* Properties of check --mine (SpecMine)                                   *)
(***************************************************************************)
MineDone == mPc = "done" /\ mFlags.mine

\* C27: with --mine nothing is posted to the channel and no on-call responder
\* is looked up for tagging, whatever the other flags; the result comes back
\* in the private replies; without an email of the invoking user the ticket
\* list is never fetched.
C27_MinePrecedence ==
    (mPc # "idle" /\ mFlags.mine) =>
        /\ mPosted = 0
        /\ mOncall = 0
        /\ mPc \notin {"send", "build"}
        /\ mEmail # "email" => mFetches = 0
        /\ mPc = "done" => /\ Len(mReplies) = 2
                           /\ mReplies[2] \in {"digest", "noneAssigned", "noEmail", "error"}
                           /\ (mReplies[2] = "noEmail") <=> (mEmail = "noEmail")

\* --mine with --channel and --remind: the digest came back privately
C27_Witness ==
    /\ MineDone /\ mFlags.channel /\ mFlags.remind
    /\ mReplies = <<"checking", "digest">>
    /\ mPosted = 0

(***************************************************************************)
(* Hydration of the webhook issue (SpecWebhook, the revision that strips)  *)
(***************************************************************************)
\* the object of the request body the issue is read from, as it was sent
SentIssue ==
    IF Prop(body, "data").t = "obj" THEN Prop(body, "data")
    ELSE IF Prop(body, "issue").t = "obj" THEN Prop(body, "issue")
    ELSE body

\* a field that was sent as a rendered, non-empty string
Rendered(v) == v.t = "str" /\ v.s # <<>> /\ v.s # Placeholder

\* what the claim calls for hydration: an id, and no slack.channel_id
WantsHydration ==
    /\ Rendered(Prop(SentIssue, "id"))
    /\ ~Rendered(Prop(Prop(SentIssue, "slack"), "channel_id"))

\* the issue has been extracted from the body
Extracted == whIssue.t = "obj"

\* C28: fetchIssueById is issued at most once per webhook, and exactly when the
\* stripped issue has an id and no slack.channel_id (a placeholder channel id
\* counts as missing, a placeholder id suppresses the fetch); a failed fetch
\* leaves the webhook issue as it was and the triage post is still issued.
C28_HydrationOnce ==
    rev = "secret" =>
        /\ Cardinality(CallsOf("fetchIssueById")) <= 1
        /\ ~Extracted => CallsOf("fetchIssueById") = {}
        /\ Extracted => (CallsOf("fetchIssueById") # {} <=> WantsHydration)
        /\ fullIssue = JNull =>
              /\ curIssue = whIssue
              /\ \E i \in CallsOf("fetchIssueById"), j \in CallsOf("triagePost") : j = i + 1

\* a placeholder channel id led to the fetch, the fetch failed, and the triage
\* post went out with the webhook issue
C28_Witness ==
    /\ rev = "secret"
    /\ Prop(Prop(SentIssue, "slack"), "channel_id") = JStr(Placeholder)
    /\ Cardinality(CallsOf("fetchIssueById")) = 1
    /\ fullIssue = JNull
    /\ triageTs

(***************************************************************************)
(* Properties of thread links (SpecLink)                                   *)
(***************************************************************************)
\* made of upper-case letters and digits
ChannelIdShaped(c) ==
    /\ c # <<>>
    /\ \A i \in DOMAIN c : c[i] \in UpperLetters \cup {Digits[j] : j \in DOMAIN Digits}

\* 10 digits, a dot, 6 digits
TimestampShaped(t) ==
    /\ Len(t) = 17
    /\ t[11] = "."
    /\ \A i \in (1..17) \ {11} : t[i] \in {Digits[j] : j \in DOMAIN Digits}

\* C29: for a channel id of upper-case letters and digits and a timestamp of 10
\* digits, a dot and 6 digits, parsing the built link gives back the same
\* channel id and the same timestamp.
C29_LinkRoundTrip ==
    (lkPc = "roundTrip" /\ ChannelIdShaped(lkChannel) /\ TimestampShaped(lkTs)) =>
        /\ lkParsed.ok
        /\ lkParsed.channelId = lkChannel
        /\ lkParsed.threadTs = lkTs

\* a channel id that itself looks like a link tail, with a shaped timestamp,
\* went through build and parse
C29_Witness ==
    /\ lkPc = "roundTrip"
    /\ ChannelIdShaped(lkChannel) /\ Len(lkChannel) > 11
    /\ TimestampShaped(lkTs)
    /\ lkParsed.ok

(***************************************************************************)
(* The two digest builders agree (SpecSend)                                *)
(***************************************************************************)
\* the on-call mention prefix: empty when tagging is off or nobody is on call
MentionPrefix ==
    IF sdIn.tagOncall
    THEN [i \in 1..Len(sdIn.oncallIds) |-> Tok("mention", "", 0, sdIn.oncallIds[i])]
    ELSE <<>>

\* C30: on the same tickets, names and options the text sendCheckMessage posts
\* is the on-call mention prefix followed by exactly the text getCheckMessage
\* returns, and it posts nothing exactly when getCheckMessage returns nothing.
C30_SameDigest ==
    sdDone = {"get", "send"} =>
        /\ sdSent.isNull <=> sdGot.isNull
        /\ ~sdGot.isNull => sdSent.text = MentionPrefix \o sdGot.text

\* both sections with two tickets between them, a resolved name, and a tagged
\* responder in front
C30_Witness ==
    /\ sdDone = {"get", "send"}
    /\ sdIn.newIssues # <<>> /\ sdIn.openIssues # <<>>
    /\ \E t \in Tickets : sdIn.names[t] # <<>>
    /\ MentionPrefix # <<>>
    /\ ~sdSent.isNull
    /\ Len(sdSent.text) > Len(sdGot.text)

====
